---- MODULE Spec2Model ----
(***************************************************************************)
(* PiGuard: the event pipeline (bus -> ingest sink -> store, deduplicator, *)
(* notifiers), the watchers, the Telegram command handler and the          *)
(* daemon's shutdown.  The specifications share the variables:             *)
(*   Spec         the daemon pipeline (internal/daemon, eventbus,          *)
(*                analysers), every Send succeeding                        *)
(*   SpecNotify   the pipeline with notifiers whose Send can fail          *)
(*   SpecFilter   the pipeline fed with an Info and a Critical event       *)
(*   SpecSys      the pipeline fed by the system watcher                   *)
(*   SpecDedup    the deduplicator called directly (internal/analysers)    *)
(*   SpecKey      the deduplicator called with events that differ in one   *)
(*                part of their key                                        *)
(*   SpecBus      the event bus with handlers of any kind                  *)
(*   SpecWatch    the port and firewall watchers (internal/watchers)       *)
(*   SpecFw       the firewall watcher under several configurations        *)
(*   SpecPoll     the port, container and neighbour watchers, one enabled  *)
(*   SpecBot      the Telegram command handler (telegram_bot.go)           *)
(*   SpecShutdown Daemon.Run from the shutdown signal to its return        *)
(*   SpecShutdownLive  the same with the iterations of the goroutines'     *)
(*                loops, under scheduler fairness                          *)
(*   SpecDrain    Daemon.Run shutting down while events are delivered      *)
(*   SpecParse    parseSsLine on one local-address field                   *)
(*   SpecSec      the security-tools watcher tailing one log               *)
(*   SpecFim      the file-integrity watcher on one regular file           *)
(*   SpecPrune    Store.Prune called directly                              *)
(*   SpecSummary  the daily summary scheduler                              *)
(* Time is a discrete wall clock; one unit is the granularity at which the *)
(* deduplicator's cooldown is measured.                                    *)
(***************************************************************************)
EXTENDS Integers, Sequences, FiniteSets, TLC

VARIABLES
    now,          \* wall clock read by time.Now() / time.Since()
    handlers,     \* Bus.handlers
    tasks,        \* one record per goroutine started by Bus.Publish
    seen,         \* Deduplicator.seen : dedup key -> last sent time
    calls,        \* the ShouldAlert calls made directly on the deduplicator
    storeUp,      \* whether the SQLite database accepts writes
    store,        \* rows of the events table, keyed by ID
    portPhase,    \* NetlinkWatcher: position in Start
    portBaseline, \* NetlinkWatcher.baseline : addr -> PortInfo
    portOp,       \* the last step NetlinkWatcher took and what it published
    fwPhase,      \* FirewallWatcher: position in Start
    fwBaselines,  \* FirewallWatcher.baselines : chain -> rule hash
    fwOp,         \* the last step FirewallWatcher took and what it published
    fwChains,     \* Cfg.Firewall.Chains
    botPhase,     \* TelegramBotWatcher: position in Start
    botChatID,    \* TelegramBotWatcher.chatID (configuration string)
    botInteractive, \* Cfg.Notifications.Telegram.Interactive
    botOffset,    \* TelegramBotWatcher.offset
    botLog,       \* what poll did with each update of the last batch
    rebootTimer,  \* the goroutine cmdReboot starts: idle, armed or fired
    busHandlers,  \* Bus.handlers, each handler by what it does when called
    busTasks,     \* the goroutines Bus.Publish started
    busPubs,      \* the Publish calls that returned
    procUp,       \* the process is running (no goroutine has panicked)
    runPc,        \* Daemon.Run: the shutdown statement it is about to execute
    runSignal,    \* a shutdown signal is waiting in sigCh
    ctxDone,      \* the shared context is cancelled
    runTasks,     \* the goroutines under Run's WaitGroup: name -> state
    runStopped,   \* the watchers whose Stop has been called, in order
    storeOpen,    \* the store has not been closed
    watcherOn,    \* the polling watcher the configuration enables
    alertOnStop,  \* Cfg.Docker.AlertOnStop
    alertOnLeave, \* NetworkScanWatcher.alertLeave
    dockerPhase,  \* DockerWatcher: position in Start
    dockerBaseline, \* DockerWatcher.baseline : container ID -> containerState
    dockerOp,     \* the last step DockerWatcher took and what it published
    netPhase,     \* NetworkScanWatcher: position in Start
    netBaseline,  \* NetworkScanWatcher.baseline : MAC -> networkDevice
    netOp,        \* the last step NetworkScanWatcher took and what it published
    ssIn,         \* the local-address field of a line of ss output
    ssOut,        \* what parseSsLine returned for it
    secPhase,     \* SecToolsWatcher: position in Start
    secOffset,    \* SecToolsWatcher.offsets[ClamAVLog]
    secOp,        \* the last scanLog call and what it published
    fimPhase,     \* InotifyWatcher: position in Start, or crashed
    fimWds,       \* InotifyWatcher.wds : watch descriptor -> watchEntry
    fimHashes,    \* InotifyWatcher.hashes : path -> SHA256 baseline
    fimOp,        \* the last dispatchEvent call and what it published
    pruneOp,      \* the last Store.Prune call and what it returned
    sumMinute,    \* cfg.Alerts.DailySummary as a minute of the day, -1 for ""
    sumNow,       \* runDailySummary: the time its pending timer fires
    sumSends      \* the times at which the daily summary was sent

daemonVars == <<now, handlers, tasks, seen, calls, storeUp, store>>
watchVars  == <<portPhase, portBaseline, portOp, fwPhase, fwBaselines, fwOp,
                fwChains>>
botVars    == <<botPhase, botChatID, botInteractive, botOffset, botLog, rebootTimer>>
busVars    == <<busHandlers, busTasks, busPubs, procUp>>
runVars    == <<runPc, runSignal, ctxDone, runTasks, runStopped, storeOpen>>
pollVars   == <<watcherOn, alertOnStop, alertOnLeave,
                dockerPhase, dockerBaseline, dockerOp,
                netPhase, netBaseline, netOp>>
parseVars  == <<ssIn, ssOut>>
secVars    == <<secPhase, secOffset, secOp>>
fimVars    == <<fimPhase, fimWds, fimHashes, fimOp>>
pruneVars  == <<pruneOp>>
sumVars    == <<sumMinute, sumNow, sumSends>>
unitVars   == <<parseVars, secVars, fimVars, pruneVars, sumVars>>
coreVars   == <<daemonVars, watchVars, botVars, busVars, runVars, pollVars>>
AllButParse == <<coreVars, secVars, fimVars, pruneVars, sumVars>>
AllButSec   == <<coreVars, parseVars, fimVars, pruneVars, sumVars>>
AllButFim   == <<coreVars, parseVars, secVars, pruneVars, sumVars>>
AllButSum   == <<coreVars, parseVars, secVars, fimVars, pruneVars>>
extVars    == <<busVars, runVars, pollVars, unitVars>>
vars == <<now, handlers, tasks, seen, calls, storeUp, store,
          portPhase, portBaseline, portOp, fwPhase, fwBaselines, fwOp, fwChains,
          botPhase, botChatID, botInteractive, botOffset, botLog, rebootTimer,
          busHandlers, busTasks, busPubs, procUp,
          runPc, runSignal, ctxDone, runTasks, runStopped, storeOpen,
          watcherOn, alertOnStop, alertOnLeave,
          dockerPhase, dockerBaseline, dockerOp,
          netPhase, netBaseline, netOp,
          ssIn, ssOut, secPhase, secOffset, secOp,
          fimPhase, fimWds, fimHashes, fimOp, pruneOp,
          sumMinute, sumNow, sumSends>>

----------------------------------------------------------------------------
(* Bounds *)

MaxEvents == 2      \* events published in one behaviour of Spec
MaxCalls  == 3      \* ShouldAlert calls in one behaviour of SpecDedup
MaxTime   == 3      \* last clock value explored

----------------------------------------------------------------------------
(* pkg/models *)

SeverityInfo     == 0
SeverityWarning  == 1
SeverityCritical == 2

NoPayload == "<nil>"

\* The two events FirewallWatcher.check publishes for one chain: the
\* expectation failure and the drift (Timestamp and ID are stamped by
\* Publish).
FirewallEvents ==
    { [type |-> "firewall.changed", sev |-> SeverityCritical,
       port |-> NoPayload, chain |-> "INPUT", msg |-> "Firewall policy changed"],
      [type |-> "firewall.changed", sev |-> SeverityWarning,
       port |-> NoPayload, chain |-> "INPUT", msg |-> "Firewall rules changed"] }

\* The events handed to the deduplicator: those and a port event with its
\* payload and a firewall event without one.
EventPool ==
    FirewallEvents \cup
    { [type |-> "port.opened", sev |-> SeverityInfo,
       port |-> "127.0.0.1:8080", chain |-> NoPayload, msg |-> "New listening port"],
      [type |-> "firewall.changed", sev |-> SeverityCritical,
       port |-> NoPayload, chain |-> NoPayload, msg |-> "Firewall policy changed"] }

\* The events ShouldAlert is called with where its key is examined: port
\* events of both types on one address with different messages, a port event
\* without its payload whose message is that address, firewall events on one
\* chain with different messages and one without its payload.
KeyEvents ==
    { [type |-> "port.opened", sev |-> SeverityInfo,
       port |-> "127.0.0.1:8080", chain |-> NoPayload, msg |-> "New listening port"],
      [type |-> "port.opened", sev |-> SeverityWarning,
       port |-> "127.0.0.1:8080", chain |-> NoPayload, msg |-> "Port exposed"],
      [type |-> "port.closed", sev |-> SeverityInfo,
       port |-> "127.0.0.1:8080", chain |-> NoPayload, msg |-> "New listening port"],
      [type |-> "port.opened", sev |-> SeverityInfo,
       port |-> NoPayload, chain |-> NoPayload, msg |-> "127.0.0.1:8080"],
      [type |-> "firewall.changed", sev |-> SeverityCritical,
       port |-> NoPayload, chain |-> "INPUT", msg |-> "Firewall policy changed"],
      [type |-> "firewall.changed", sev |-> SeverityWarning,
       port |-> NoPayload, chain |-> "INPUT", msg |-> "Firewall rules changed"],
      [type |-> "firewall.changed", sev |-> SeverityCritical,
       port |-> NoPayload, chain |-> NoPayload, msg |-> "Firewall policy changed"] }

----------------------------------------------------------------------------
(* internal/analysers/dedup.go *)

Cooldown == 1

\* A string of an event as the pieces the colons in it separate; no EventType
\* holds a colon.
Pieces(str) ==
    CASE str = "127.0.0.1:8080" -> <<"127.0.0.1", ":", "8080">>
      [] OTHER -> <<str>>

\* dedupKey with the message as the second part of every key.
dedupKeyMessageOnly(event) ==
    Pieces(event.type) \o <<":">> \o Pieces(event.msg)

\* string(event.Type) + ":" + the address, the chain or the message.
dedupKey(event) ==
    IF event.type \in {"port.opened", "port.closed"} /\ event.port # NoPayload
    THEN Pieces(event.type) \o <<":">> \o Pieces(event.port)
    ELSE IF event.type = "firewall.changed" /\ event.chain # NoPayload
    THEN Pieces(event.type) \o <<":">> \o Pieces(event.chain)
    ELSE Pieces(event.type) \o <<":">> \o Pieces(event.msg)

\* ShouldAlert with >= in place of >.
ShouldAlertAtBoundary(s, event, t) ==
    LET key == dedupKey(event)
        exists == key \in DOMAIN s
    IN  ~exists \/ t - s[key] >= Cooldown

\* ShouldAlert as it was before Critical events were made to respect the
\* cooldown.
ShouldAlertCriticalBypass(s, event, t) ==
    LET key == dedupKey(event)
        exists == key \in DOMAIN s
    IN  event.sev = SeverityCritical \/ ~exists \/ t - s[key] > Cooldown

\* ShouldAlert that lets only Warning and above through on first sight.
ShouldAlertSeverityGate(s, event, t) ==
    LET key == dedupKey(event)
        exists == key \in DOMAIN s
    IN  (~exists /\ event.sev # SeverityInfo) \/ (exists /\ t - s[key] > Cooldown)

\* The value ShouldAlert returns when the map is s and the clock reads t.
ShouldAlert(s, event, t) ==
    LET key == dedupKey(event)
        exists == key \in DOMAIN s
    IN  ~exists \/ t - s[key] > Cooldown

\* ShouldAlert stamping the key on every call, suppressed or not.
SeenAfterStampAlways(s, event, t) ==
    LET key == dedupKey(event)
    IN  [k \in DOMAIN s \cup {key} |-> IF k = key THEN t ELSE s[k]]

\* The map ShouldAlert leaves behind.
SeenAfter(s, event, t) ==
    LET key == dedupKey(event)
    IN  IF ShouldAlert(s, event, t)
        THEN [k \in DOMAIN s \cup {key} |-> IF k = key THEN t ELSE s[k]]
        ELSE s

\* Cleanup that removes every entry one cooldown old.
CleanupAtCooldown(s, t) ==
    LET keep == {k \in DOMAIN s : ~(t - s[k] >= Cooldown)}
    IN  [k \in keep |-> s[k]]

\* The map Cleanup leaves behind.
Cleanup(s, t) ==
    LET keep == {k \in DOMAIN s : ~(t - s[k] > Cooldown * 2)}
    IN  [k \in keep |-> s[k]]

\* d.ShouldAlert(event) called at clock reading now.
CallShouldAlert(e) ==
    /\ Len(calls) < MaxCalls
    /\ calls' = Append(calls, [ev |-> e, t |-> now,
                               existed |-> dedupKey(e) \in DOMAIN seen,
                               result |-> ShouldAlert(seen, e, now)])
    /\ seen' = SeenAfter(seen, e, now)
    /\ UNCHANGED <<now, handlers, tasks, storeUp, store>>
    /\ UNCHANGED watchVars
    /\ UNCHANGED botVars
    /\ UNCHANGED extVars

\* d.Cleanup() called at clock reading now.
CallCleanup ==
    /\ seen' = Cleanup(seen, now)
    /\ UNCHANGED <<now, handlers, tasks, calls, storeUp, store>>
    /\ UNCHANGED watchVars
    /\ UNCHANGED botVars
    /\ UNCHANGED extVars

----------------------------------------------------------------------------
(* internal/store/sqlite.go *)

PruneDays == 30
DayLen    == 2      \* clock units per day

\* INSERT OR REPLACE keyed by id.
SaveEvent(rows, event) ==
    {r \in rows : r.id # event.id} \cup {event}

\* The DELETE taking the rows stamped at the cutoff as well.
PruneInclusive(rows, days, t) ==
    {r \in rows : ~(r.ts <= t - days * DayLen)}

Prune(rows, days, t) ==
    {r \in rows : ~(r.ts < t - days * DayLen)}

\* result.RowsAffected() of Prune's DELETE.
RowsAffected(rows, days, t) == Cardinality(rows \ Prune(rows, days, t))

\* Store.Prune(days) called on its own; a database that does not accept
\* writes fails the DELETE.
StorePrune(days) ==
    /\ IF storeUp
       THEN /\ store' = Prune(store, days, now)
            /\ pruneOp' = [kind |-> "prune", err |-> FALSE, days |-> days,
                           at |-> now, before |-> store,
                           n |-> RowsAffected(store, days, now)]
       ELSE /\ store' = store
            /\ pruneOp' = [kind |-> "prune", err |-> TRUE, days |-> days,
                           at |-> now, before |-> store, n |-> 0]
    /\ UNCHANGED <<now, handlers, tasks, seen, calls, storeUp>>
    /\ UNCHANGED <<watchVars, botVars, busVars, runVars, pollVars>>
    /\ UNCHANGED <<parseVars, secVars, fimVars, sumVars>>

----------------------------------------------------------------------------
(* internal/eventbus/bus.go, internal/daemon/daemon.go *)

Notifiers == <<"telegram", "ntfy">>

NotifierSet == {Notifiers[i] : i \in 1..Len(Notifiers)}

\* daemon.Run: d.bus.Subscribe(func(event) { d.handleEvent(event) })
Subscribe ==
    /\ handlers = <<>>
    /\ handlers' = Append(handlers, "ingest")
    /\ UNCHANGED <<now, tasks, seen, calls, storeUp, store>>
    /\ UNCHANGED watchVars
    /\ UNCHANGED botVars
    /\ UNCHANGED extVars

\* handleEvent with the notifier loop ahead of the store write.
handleEventNotifyFirst == <<"gate", "notify", "save">>

\* handleEvent: the order of its three statements.
handleEvent == <<"save", "gate", "notify">>

Returned == Len(handleEvent) + 1

\* The statement goroutine i is about to execute.
Stmt(i) ==
    IF tasks[i].step \in 1..Len(handleEvent) THEN handleEvent[tasks[i].step] ELSE "done"

NewTask(event, h) ==
    [ev |-> event, handler |-> h, step |-> 1, saved |-> "pending",
     gateT |-> -1, passed |-> FALSE, existed |-> FALSE, sentTo |-> {},
     sends |-> <<>>]

\* Bus.Publish: one goroutine per subscribed handler.
Publish(e) ==
    /\ Len(tasks) + Len(handlers) <= MaxEvents
    /\ handlers # <<>>
    /\ LET event == [type |-> e.type, sev |-> e.sev, port |-> e.port,
                     chain |-> e.chain, msg |-> e.msg, ts |-> now,
                     id |-> <<e.type, e.port, e.chain, now>>]
       IN  tasks' = tasks \o [i \in 1..Len(handlers) |-> NewTask(event, handlers[i])]
    /\ UNCHANGED <<now, handlers, seen, calls, storeUp, store>>
    /\ UNCHANGED watchVars
    /\ UNCHANGED botVars
    /\ UNCHANGED extVars

\* handleEvent returning when SaveEvent fails.
afterSaveReturnOnError(step, ok) == IF ok THEN step + 1 ELSE Returned

\* Where handleEvent goes after SaveEvent: on to the next statement, whether
\* the write succeeded or not.
afterSave(step, ok) == step + 1

\* handleEvent, first statement: d.store.SaveEvent(event); an error is
\* logged and handleEvent goes on.  The write fails on a database that
\* does not accept writes and on one that Run has closed.
HandleSave(i) ==
    /\ i \in 1..Len(tasks)
    /\ Stmt(i) = "save"
    /\ LET ok == storeUp /\ storeOpen
       IN  /\ store' = IF ok THEN SaveEvent(store, tasks[i].ev) ELSE store
           /\ tasks' = [tasks EXCEPT ![i].step = afterSave(@, ok),
                                     ![i].saved = IF ok THEN "ok" ELSE "error"]
    /\ UNCHANGED <<now, handlers, seen, calls, storeUp>>
    /\ UNCHANGED watchVars
    /\ UNCHANGED botVars
    /\ UNCHANGED extVars

\* handleEvent, second statement: d.dedup.ShouldAlert(event), under d.mu.
HandleGate(i) ==
    /\ i \in 1..Len(tasks)
    /\ Stmt(i) = "gate"
    /\ LET ev == tasks[i].ev
           pass == ShouldAlert(seen, ev, now)
       IN  /\ seen' = SeenAfter(seen, ev, now)
           /\ tasks' = [tasks EXCEPT ![i].step = IF pass THEN @ + 1 ELSE Returned,
                                     ![i].gateT = now,
                                     ![i].passed = pass,
                                     ![i].existed = dedupKey(ev) \in DOMAIN seen]
    /\ UNCHANGED <<now, handlers, calls, storeUp, store>>
    /\ UNCHANGED watchVars
    /\ UNCHANGED botVars
    /\ UNCHANGED extVars

\* Every Send succeeds.
NoFailure == {}

\* The notifier loop leaving at the first Send that returns an error.
RECURSIVE sendLoopStopAtError(_, _)
sendLoopStopAtError(k, failing) ==
    IF k > Len(Notifiers) THEN <<>>
    ELSE IF Notifiers[k] \in failing
         THEN << [to |-> Notifiers[k], err |-> TRUE] >>
         ELSE << [to |-> Notifiers[k], err |-> FALSE] >>
              \o sendLoopStopAtError(k + 1, failing)

\* The loop over d.notifiers from notifier k on: the Send calls it makes, in
\* order, each with whether it returned an error; failing is the set of
\* notifiers whose Send fails.
RECURSIVE sendLoop(_, _)
sendLoop(k, failing) ==
    IF k > Len(Notifiers) THEN <<>>
    ELSE << [to |-> Notifiers[k], err |-> Notifiers[k] \in failing] >>
         \o sendLoop(k + 1, failing)

\* handleEvent, the loop over d.notifiers: n.Send(event) for each notifier
\* in turn; an error is logged and the loop goes on.
HandleNotify(i, failing) ==
    /\ i \in 1..Len(tasks)
    /\ Stmt(i) = "notify"
    /\ LET sends == sendLoop(1, failing)
       IN  tasks' = [tasks EXCEPT ![i].sends = sends,
                                  ![i].sentTo = {sends[k].to : k \in 1..Len(sends)},
                                  ![i].step = @ + 1]
    /\ UNCHANGED <<now, handlers, seen, calls, storeUp, store>>
    /\ UNCHANGED watchVars
    /\ UNCHANGED botVars
    /\ UNCHANGED extVars

\* runCleanup, one ticker firing: d.dedup.Cleanup(); d.store.Prune(30).
CleanupTick ==
    /\ seen' = Cleanup(seen, now)
    /\ store' = Prune(store, PruneDays, now)
    /\ UNCHANGED <<now, handlers, tasks, calls, storeUp>>
    /\ UNCHANGED watchVars
    /\ UNCHANGED botVars
    /\ UNCHANGED extVars

\* The wall clock advances.
Tick ==
    /\ now < MaxTime
    /\ now' = now + 1
    /\ UNCHANGED <<handlers, tasks, seen, calls, storeUp, store>>
    /\ UNCHANGED watchVars
    /\ UNCHANGED botVars
    /\ UNCHANGED extVars

----------------------------------------------------------------------------
(* internal/eventbus/bus.go, with handlers of any kind *)

MaxHandlers  == 2
MaxPublishes == 2

\* What a subscribed handler does when it is called: it returns, it never
\* returns, or it panics.  Nothing in the repository recovers from a panic,
\* so a panic in a goroutine ends the process.
HandlerKinds == {"returns", "blocks", "panics"}

AllButBus == <<daemonVars, watchVars, botVars, runVars, pollVars, unitVars>>

\* Bus.Subscribe
BusSubscribe(kind) ==
    /\ procUp
    /\ Len(busHandlers) < MaxHandlers
    /\ busHandlers' = Append(busHandlers, kind)
    /\ UNCHANGED <<busTasks, busPubs, procUp>>
    /\ UNCHANGED AllButBus

\* The loop of Publish that stops after the first handler.
DispatchFirstOnly(hs, k, event) ==
    [h \in 1..(IF Len(hs) > 0 THEN 1 ELSE 0) |->
        [pub |-> k, handler |-> h, kind |-> hs[h], ev |-> event, state |-> "started"]]

\* The loop of Publish: go h(event) for each handler, in order.
Dispatch(hs, k, event) ==
    [h \in 1..Len(hs) |->
        [pub |-> k, handler |-> h, kind |-> hs[h], ev |-> event, state |-> "started"]]

\* Bus.Publish: the read lock is free whenever no Subscribe is running.
BusPublish(event) ==
    /\ procUp
    /\ Len(busPubs) < MaxPublishes
    /\ busTasks' = busTasks \o Dispatch(busHandlers, Len(busPubs) + 1, event)
    /\ busPubs' = Append(busPubs, [ev |-> event, handlers |-> busHandlers])
    /\ UNCHANGED <<busHandlers, procUp>>
    /\ UNCHANGED AllButBus

\* The goroutine of go h(event) runs the handler.
HandlerRun(i) ==
    /\ procUp
    /\ i \in 1..Len(busTasks)
    /\ busTasks[i].state = "started"
    /\ CASE busTasks[i].kind = "returns" ->
              /\ busTasks' = [busTasks EXCEPT ![i].state = "done"]
              /\ procUp' = procUp
         [] busTasks[i].kind = "blocks" ->
              /\ busTasks' = [busTasks EXCEPT ![i].state = "blocked"]
              /\ procUp' = procUp
         [] busTasks[i].kind = "panics" ->
              /\ busTasks' = [j \in 1..Len(busTasks) |->
                    IF j = i THEN [busTasks[j] EXCEPT !.state = "panicked"]
                    ELSE IF busTasks[j].state \in {"started", "blocked"}
                    THEN [busTasks[j] EXCEPT !.state = "killed"]
                    ELSE busTasks[j]]
              /\ procUp' = FALSE
    /\ UNCHANGED <<busHandlers, busPubs>>
    /\ UNCHANGED AllButBus

----------------------------------------------------------------------------
(* Strings are sequences of tokens, so that prefix and suffix tests are     *)
(* computed and not assumed.                                                *)

HasPrefix(str, prefix) ==
    /\ Len(prefix) <= Len(str)
    /\ SubSeq(str, 1, Len(prefix)) = prefix

HasSuffix(str, suffix) ==
    /\ Len(suffix) <= Len(str)
    /\ SubSeq(str, Len(str) - Len(suffix) + 1, Len(str)) = suffix

\* strings.TrimSuffix(str, suffix)
TrimSuffix(str, suffix) ==
    IF HasSuffix(str, suffix) THEN SubSeq(str, 1, Len(str) - Len(suffix)) ELSE str

\* The first position of token in str, or 0 when it has none (Go: -1).
Index(str, token) ==
    IF \E i \in 1..Len(str) : str[i] = token
    THEN CHOOSE i \in 1..Len(str) :
            str[i] = token /\ \A j \in 1..(i - 1) : str[j] # token
    ELSE 0

\* The last position of token in str, or 0 when it has none.
LastIndex(str, token) ==
    IF \E i \in 1..Len(str) : str[i] = token
    THEN CHOOSE i \in 1..Len(str) :
            str[i] = token /\ \A j \in (i + 1)..Len(str) : str[j] # token
    ELSE 0

----------------------------------------------------------------------------
(* internal/watchers/netlink.go *)

\* Local addresses ss -tlnp can report on this host.
Addrs ==
    { <<"0.0.0.0", ":", "8080">>,
      <<"0.0.0.0", ":", "22">>,
      <<"127.0.0.1", ":", "631">> }

\* Cfg.Ports.Ignore
PortsIgnore == << <<"127.0.0.1", ":", "*">>, <<"0.0.0.0", ":", "22">> >>

\* The longest local-address field parseSsLine is given.
MaxAddrLen == 6

\* The tokens of a local-address field: the colon, the brackets and the
\* asterisk are characters; the others are runs of digits and dots.
AddrTokens == {":", "[", "]", "*", "0.0.0.0", "127.0.0.1", "80"}

\* The local-address fields parseSsLine is given.
SsAddrs == UNION {[1..n -> AddrTokens] : n \in 1..MaxAddrLen}

\* A failed net.SplitHostPort.
SplitError == [err |-> TRUE, host |-> <<>>]

\* net.SplitHostPort that takes the host to be whatever precedes the last
\* colon.
SplitHostPortLastColon(hostport) ==
    LET i == LastIndex(hostport, ":")
    IN  IF i = 0 THEN SplitError
        ELSE [err |-> FALSE, host |-> SubSeq(hostport, 1, i - 1)]

\* net.SplitHostPort(hostport): the error and the host.  The port starts
\* after the last colon; a host in brackets must be closed right before that
\* colon; a host without brackets must hold no colon; no bracket may follow.
SplitHostPort(hostport) ==
    LET i == LastIndex(hostport, ":")
        end == Index(hostport, "]")
    IN  IF i = 0 THEN SplitError
        ELSE IF hostport[1] = "["
        THEN IF end = 0 \/ end + 1 # i THEN SplitError
             ELSE IF \/ Index(SubSeq(hostport, 2, Len(hostport)), "[") # 0
                     \/ Index(SubSeq(hostport, end + 1, Len(hostport)), "]") # 0
             THEN SplitError
             ELSE [err |-> FALSE, host |-> SubSeq(hostport, 2, end - 1)]
        ELSE IF Index(SubSeq(hostport, 1, i - 1), ":") # 0 THEN SplitError
             ELSE IF Index(hostport, "[") # 0 \/ Index(hostport, "]") # 0
             THEN SplitError
             ELSE [err |-> FALSE, host |-> SubSeq(hostport, 1, i - 1)]

\* The hosts parseSsLine takes for a bind to every interface.
WildcardHosts == { <<"0.0.0.0">>, <<":", ":">>, <<"*">> }

\* parseSsLine: the PortInfo of one line of ss output.
parseSsLine(addr) ==
    LET split == SplitHostPort(addr)
    IN  [Address |-> addr,
         IsExposed |-> ~split.err /\ split.host \in WildcardHosts]

\* parseSsLine called on its own.
ParseLine ==
    /\ ssOut.kind = "none"
    /\ ssOut' = [kind |-> "parsed", port |-> parseSsLine(ssIn)]
    /\ UNCHANGED ssIn
    /\ UNCHANGED AllButParse

\* scanPorts followed by the loop that keys the result by Address.
PortMap(listening) == [a \in listening |-> parseSsLine(a)]

matchAddrPattern(addr, pattern) ==
    \/ pattern = addr
    \/ /\ HasSuffix(pattern, <<":", "*">>)
       /\ HasPrefix(addr, TrimSuffix(pattern, <<"*">>))

isIgnored(addr) ==
    \E i \in 1..Len(PortsIgnore) : matchAddrPattern(addr, PortsIgnore[i])

\* RiskLevel that treats every listening port as exposed.
RiskLevelAlwaysWarning(port) == SeverityWarning

\* PortInfo.RiskLevel
RiskLevel(port) == IF ~port.IsExposed THEN SeverityInfo ELSE SeverityWarning

\* The event emitPortOpened publishes.
emitPortOpened(port) ==
    [type |-> "port.opened",
     sev |-> IF port.IsExposed THEN SeverityWarning ELSE RiskLevel(port),
     port |-> port]

\* The event emitPortClosed publishes.
emitPortClosed(port) ==
    [type |-> "port.closed", sev |-> SeverityInfo, port |-> port]

\* The events one run of check publishes (the two range loops visit the maps
\* in no fixed order, so the events are kept as a set).
portCheckEvents(baseline, currentMap) ==
    { emitPortOpened(currentMap[a]) :
        a \in {x \in DOMAIN currentMap : x \notin DOMAIN baseline /\ ~isIgnored(x)} }
    \cup
    { emitPortClosed(baseline[a]) :
        a \in {x \in DOMAIN baseline : x \notin DOMAIN currentMap} }

\* Start that runs check against the empty baseline instead of seeding it.
portStartEventsDiffed(currentMap) == portCheckEvents(<< >>, currentMap)

\* The events Start publishes while it builds the baseline: none.
portStartEvents(currentMap) == {}

\* NetlinkWatcher.Start up to the ticker loop.  scanOK is whether ss ran;
\* listening is what it listed.
PortStart(scanOK, listening) ==
    /\ portPhase = "new"
    /\ IF scanOK
       THEN /\ portPhase' = "running"
            /\ portBaseline' = PortMap(listening)
            /\ portOp' = [kind |-> "start", ok |-> TRUE, before |-> {},
                          snapshot |-> listening,
                          events |-> portStartEvents(PortMap(listening))]
       ELSE /\ portPhase' = "failed"
            /\ portBaseline' = portBaseline
            /\ portOp' = [kind |-> "start", ok |-> FALSE, before |-> {},
                          snapshot |-> {}, events |-> {}]
    /\ UNCHANGED <<fwPhase, fwBaselines, fwOp, fwChains>>
    /\ UNCHANGED daemonVars
    /\ UNCHANGED botVars
    /\ UNCHANGED extVars

\* One ticker firing: NetlinkWatcher.check.
PortCheck(scanOK, listening) ==
    /\ portPhase = "running"
    /\ IF scanOK
       THEN /\ portBaseline' = PortMap(listening)
            /\ portOp' = [kind |-> "check", ok |-> TRUE,
                          before |-> DOMAIN portBaseline,
                          snapshot |-> listening,
                          events |-> portCheckEvents(portBaseline, PortMap(listening))]
       ELSE /\ portBaseline' = portBaseline
            /\ portOp' = [kind |-> "check", ok |-> FALSE,
                          before |-> DOMAIN portBaseline,
                          snapshot |-> {}, events |-> {}]
    /\ UNCHANGED <<portPhase, fwPhase, fwBaselines, fwOp, fwChains>>
    /\ UNCHANGED daemonVars
    /\ UNCHANGED botVars
    /\ UNCHANGED extVars

----------------------------------------------------------------------------
(* internal/watchers/firewall.go *)

\* The chains of the default configuration.
DefaultChains ==
    << [Table |-> "filter", Chain |-> "INPUT",
        ExpectPolicy |-> "drop", ExpectRule |-> ""],
       [Table |-> "filter", Chain |-> "DOCKER-USER",
        ExpectPolicy |-> "", ExpectRule |-> "DROP"] >>

\* A configuration that watches the OUTPUT chain of two tables.
SharedNameChains ==
    << [Table |-> "filter", Chain |-> "OUTPUT",
        ExpectPolicy |-> "accept", ExpectRule |-> ""],
       [Table |-> "nat", Chain |-> "OUTPUT",
        ExpectPolicy |-> "", ExpectRule |-> ""] >>

\* The configurations the firewall watcher is run with.
FwConfigs == {DefaultChains, SharedNameChains}

\* Cfg.Firewall.Chains
Chains == fwChains

\* The positions of the configured (table, chain) pairs in Chains.
ChainIdx == 1..Len(Chains)

ChainNames == {Chains[i].Chain : i \in ChainIdx}

\* Rule lines iptables -L prints; a line is a sequence of tokens.
RuleDrop   == <<"DROP", "all">>
RuleAccept == <<"ACCEPT", "all">>

RuleLists == { <<>>, <<RuleAccept, RuleDrop>> }

\* What getRules returns for a chain: an error, or the rule lines.
RuleReads == { [err |-> TRUE, rules |-> <<>>] } \cup [err : {FALSE}, rules : RuleLists]

\* The chains whose policy checkExpectations asks for.
PolicyChains == {i \in ChainIdx : Chains[i].ExpectPolicy # ""}

\* What getPolicy returns: the policy of the header line, or UNKNOWN when its
\* own iptables call fails or the header carries no policy.
PolicyReads == {"DROP", "ACCEPT", "UNKNOWN"}

\* strings.ToUpper on the words this model compares.
ToUpper(word) ==
    CASE word = "drop"    -> "DROP"
      [] word = "accept"  -> "ACCEPT"
      [] word = "confirm" -> "CONFIRM"
      [] word = "Confirm" -> "CONFIRM"
      [] word = "yes"     -> "YES"
      [] word = "now"     -> "NOW"
      [] word = "web"     -> "WEB"
      [] OTHER            -> word

\* strings.EqualFold
EqualFold(a, b) == ToUpper(a) = ToUpper(b)

\* regexp.MatchString for a pattern that is a literal word: the line
\* contains the word.
MatchString(pattern, line) == \E i \in 1..Len(line) : line[i] = pattern

RECURSIVE Concat(_)
Concat(lines) ==
    IF lines = <<>> THEN <<>> ELSE Head(lines) \o Concat(Tail(lines))

\* hashRules: the digest of the rule lines written one after the other.
hashRules(rules) == Concat(rules)

\* The baseline loop of Start: chains that cannot be read get no entry.
RECURSIVE BuildBaselines(_, _, _)
BuildBaselines(i, reads, baselines) ==
    IF i > Len(Chains) THEN baselines
    ELSE LET c == Chains[i].Chain
         IN  IF reads[i].err
             THEN BuildBaselines(i + 1, reads, baselines)
             ELSE BuildBaselines(i + 1, reads,
                    [k \in DOMAIN baselines \cup {c} |->
                        IF k = c THEN hashRules(reads[i].rules) ELSE baselines[k]])

\* checkExpectations with a rule check that takes an empty chain for a chain
\* holding the expected rule.
expectationEventsEmptyChainPasses(chain, read, policy) ==
    IF read.err THEN <<>>
    ELSE
      LET policyEvent ==
              IF chain.ExpectPolicy # "" /\ ~EqualFold(policy, chain.ExpectPolicy)
              THEN << [type |-> "firewall.changed", sev |-> SeverityCritical,
                       chain |-> chain.Chain, table |-> chain.Table,
                       what |-> "policy"] >>
              ELSE <<>>
          found == \/ read.rules = <<>>
                   \/ \E r \in 1..Len(read.rules) :
                          MatchString(chain.ExpectRule, read.rules[r])
          ruleEvent ==
              IF chain.ExpectRule # "" /\ ~found
              THEN << [type |-> "firewall.changed", sev |-> SeverityCritical,
                       chain |-> chain.Chain, table |-> chain.Table,
                       what |-> "rule"] >>
              ELSE <<>>
      IN  policyEvent \o ruleEvent

\* The events checkExpectations publishes for one configured chain; policy
\* is what getPolicy returns for it.
expectationEvents(chain, read, policy) ==
    IF read.err THEN <<>>
    ELSE
      LET policyEvent ==
              IF chain.ExpectPolicy # "" /\ ~EqualFold(policy, chain.ExpectPolicy)
              THEN << [type |-> "firewall.changed", sev |-> SeverityCritical,
                       chain |-> chain.Chain, table |-> chain.Table,
                       what |-> "policy"] >>
              ELSE <<>>
          found == \E r \in 1..Len(read.rules) :
                       MatchString(chain.ExpectRule, read.rules[r])
          ruleEvent ==
              IF chain.ExpectRule # "" /\ ~found
              THEN << [type |-> "firewall.changed", sev |-> SeverityCritical,
                       chain |-> chain.Chain, table |-> chain.Table,
                       what |-> "rule"] >>
              ELSE <<>>
      IN  policyEvent \o ruleEvent

RECURSIVE checkExpectationsFrom(_, _, _)
checkExpectationsFrom(i, reads, policies) ==
    IF i > Len(Chains) THEN <<>>
    ELSE expectationEvents(Chains[i], reads[i],
                           IF i \in PolicyChains THEN policies[i] ELSE "")
         \o checkExpectationsFrom(i + 1, reads, policies)

\* checkExpectations: the events it publishes, in order.
checkExpectations(reads, policies) == checkExpectationsFrom(1, reads, policies)

\* checkDrift from chain i on: the events it publishes and the baselines it
\* leaves.
RECURSIVE checkDriftFrom(_, _, _)
checkDriftFrom(i, reads, baselines) ==
    IF i > Len(Chains) THEN [events |-> <<>>, baselines |-> baselines]
    ELSE LET c == Chains[i].Chain
             currentHash == hashRules(reads[i].rules)
             drift == ~reads[i].err /\ c \in DOMAIN baselines
                      /\ currentHash # baselines[c]
             updated == IF drift
                        THEN [baselines EXCEPT ![c] = currentHash]
                        ELSE baselines
             rest == checkDriftFrom(i + 1, reads, updated)
         IN  [events |->
                 (IF drift
                  THEN << [type |-> "firewall.changed", sev |-> SeverityWarning,
                           chain |-> c, table |-> Chains[i].Table,
                           what |-> "drift"] >>
                  ELSE <<>>) \o rest.events,
              baselines |-> rest.baselines]

checkDrift(reads, baselines) == checkDriftFrom(1, reads, baselines)

\* The events Start publishes: it seeds the baselines and then calls
\* checkExpectations.
fwStartEvents(reads, policies) == checkExpectations(reads, policies)

\* FirewallWatcher.Start up to the ticker loop.
FwStart(reads, policies) ==
    /\ fwPhase = "new"
    /\ fwPhase' = "running"
    /\ fwBaselines' = BuildBaselines(1, reads, fwBaselines)
    /\ fwOp' = [kind |-> "start", reads |-> reads, policies |-> policies,
                events |-> fwStartEvents(reads, policies)]
    /\ UNCHANGED <<portPhase, portBaseline, portOp, fwChains>>
    /\ UNCHANGED daemonVars
    /\ UNCHANGED botVars
    /\ UNCHANGED extVars

\* One ticker firing: FirewallWatcher.check.
FwCheck(reads, policies) ==
    /\ fwPhase = "running"
    /\ LET d == checkDrift(reads, fwBaselines)
       IN  /\ fwBaselines' = d.baselines
           /\ fwOp' = [kind |-> "check", reads |-> reads, policies |-> policies,
                       events |-> checkExpectations(reads, policies) \o d.events]
    /\ UNCHANGED <<fwPhase, portPhase, portBaseline, portOp, fwChains>>
    /\ UNCHANGED daemonVars
    /\ UNCHANGED botVars
    /\ UNCHANGED extVars

----------------------------------------------------------------------------
(* telegram_bot.go (TelegramBotWatcher) *)

\* Updates in one getUpdates response, and updates delivered in all.
MaxBatch   == 2
MaxUpdates == 3

\* telegram.chat_id values the configuration can hold, as character strings:
\* a numeric id, a channel name, and the empty value.  Validate only requires
\* the value to be non-empty when Telegram is enabled.
ChatIDs == { <<"4", "2">>, <<"@", "alerts">>, <<>> }

\* message.chat.id of the updates that arrive.
ChatPool == {0, 42}

\* message.text of the updates that arrive; " " is white space.
Texts ==
    { <<"/", "reboot">>,
      <<"/", "reboot", " ", "CONFIRM">>,
      <<"/", "reboot", " ", "confirm", " ", "now">>,
      <<"/", "Docker", " ", "rm", " ", "web", " ", "Confirm">>,
      <<"/", "docker", " ", "remove", " ", "web", " ", "yes">>,
      <<"/", "docker", " ", "prune">>,
      <<"/", "docker", " ", "prune", " ", "CONFIRM">>,
      <<" ", "/", "status", " ">>,
      <<"hello">> }

Updates == [chat : ChatPool, text : Texts]

Batches == UNION { [1..n -> Updates] : n \in 0..MaxBatch }

Digit(c) ==
    CASE c = "0" -> 0 [] c = "1" -> 1 [] c = "2" -> 2 [] c = "3" -> 3
      [] c = "4" -> 4 [] c = "5" -> 5 [] c = "6" -> 6 [] c = "7" -> 7
      [] c = "8" -> 8 [] c = "9" -> 9 [] OTHER -> -1

\* The value of a string of decimal digits, or -1 when a character is not one.
RECURSIVE ParseDigits(_, _)
ParseDigits(str, acc) ==
    IF str = <<>> THEN acc
    ELSE IF Digit(Head(str)) < 0 THEN -1
    ELSE ParseDigits(Tail(str), acc * 10 + Digit(Head(str)))

\* strconv.ParseInt(str, 10, 64) for values within range: on a syntax error
\* the value returned is 0.
ParseInt(str) ==
    IF str = <<>> THEN [val |-> 0, err |-> TRUE]
    ELSE LET body == IF Head(str) \in {"+", "-"} THEN Tail(str) ELSE str
             v == IF body = <<>> THEN -1 ELSE ParseDigits(body, 0)
         IN  IF v < 0 THEN [val |-> 0, err |-> TRUE]
             ELSE [val |-> IF Head(str) = "-" THEN 0 - v ELSE v, err |-> FALSE]

\* strings.ToLower on the words this model compares.
ToLower(word) ==
    CASE word = "Docker"  -> "docker"
      [] word = "CONFIRM" -> "confirm"
      [] word = "Confirm" -> "confirm"
      [] word = "AA:01"   -> "aa:01"
      [] OTHER            -> word

WordUpper(word) == [i \in 1..Len(word) |-> ToUpper(word[i])]
WordLower(word) == [i \in 1..Len(word) |-> ToLower(word[i])]

\* strings.TrimSpace
RECURSIVE TrimSpace(_)
TrimSpace(text) ==
    IF text = <<>> THEN text
    ELSE IF Head(text) = " " THEN TrimSpace(Tail(text))
    ELSE IF text[Len(text)] = " " THEN TrimSpace(SubSeq(text, 1, Len(text) - 1))
    ELSE text

\* strings.Fields: the words of text, split around white space.
RECURSIVE FieldsFrom(_, _, _)
FieldsFrom(text, word, acc) ==
    IF text = <<>>
    THEN IF word = <<>> THEN acc ELSE Append(acc, word)
    ELSE IF Head(text) = " "
    THEN FieldsFrom(Tail(text), <<>>, IF word = <<>> THEN acc ELSE Append(acc, word))
    ELSE FieldsFrom(Tail(text), Append(word, Head(text)), acc)

Fields(text) == FieldsFrom(text, <<>>, <<>>)

NoAction == <<>>
Confirm  == <<"CONFIRM">>

\* cmdReboot.  parts[2] is the word Go indexes as parts[1].
cmdReboot(parts) ==
    IF Len(parts) < 2 \/ WordUpper(parts[2]) # Confirm
    THEN [sent |-> <<>>,
          response |-> <<"Reboot", "requires", "confirmation", "Send:", "/reboot", "CONFIRM">>,
          action |-> NoAction]
    ELSE [sent |-> << <<"Rebooting", "in", "5", "seconds...">> >>,
          response |-> <<>>,
          action |-> <<"reboot">>]

\* cmdDockerRemove; execOK is whether the docker command succeeds.
cmdDockerRemove(args, execOK) ==
    IF Len(args) = 0
    THEN [sent |-> <<>>,
          response |-> <<"Usage:", "/docker", "remove", "<name>", "CONFIRM">>,
          action |-> NoAction]
    ELSE IF Len(args) < 2 \/ WordUpper(args[Len(args)]) # Confirm
    THEN [sent |-> <<>>,
          response |-> <<"This", "will", "force-remove", "container">> \o args[1]
                       \o <<"Send:", "/docker", "remove">> \o args[1] \o <<"CONFIRM">>,
          action |-> NoAction]
    ELSE [sent |-> <<>>,
          response |-> IF execOK THEN <<"Container">> \o args[1] \o <<"removed.">>
                       ELSE <<"Failed", "to", "remove">> \o args[1],
          action |-> <<"docker", "rm", "-f">> \o args[1]]

\* cmdDockerPrune
cmdDockerPrune(args, execOK) ==
    IF Len(args) = 0 \/ WordUpper(args[Len(args)]) # Confirm
    THEN [sent |-> <<>>,
          response |-> <<"Docker", "system", "prune", "removes", "all", "stopped",
                         "containers", "Send:", "/docker", "prune", "CONFIRM">>,
          action |-> NoAction]
    ELSE [sent |-> << <<"Running", "docker", "system", "prune...">> >>,
          response |-> IF execOK THEN <<"Docker", "pruned:">> ELSE <<"Prune", "failed:">>,
          action |-> <<"docker", "system", "prune", "-f">>]

\* cmdDockerStop, cmdDockerRestart, cmdDockerFix and cmdDockerLogs: the docker
\* command each runs on the named container.
cmdDockerOnName(verb, args, execOK) ==
    IF Len(args) = 0
    THEN [sent |-> <<>>, response |-> <<"Usage:", "/docker">> \o verb \o <<"<name>">>,
          action |-> NoAction]
    ELSE [sent |-> <<>>,
          response |-> (IF execOK THEN <<"Done:">> ELSE <<"Failed:">>) \o verb \o args[1],
          action |-> <<"docker">>
                     \o (IF verb = <<"fix">> THEN <<"restart">>
                         ELSE IF verb = <<"logs">> THEN <<"logs", "--tail", "20">>
                         ELSE verb)
                     \o args[1]]

\* A command that only reports: its reply is the report.
Report(cmd) == [sent |-> <<>>, response |-> <<"report:">> \o cmd, action |-> NoAction]

\* cmdDockerRouter
cmdDockerRouter(parts, execOK) ==
    IF Len(parts) < 2 THEN Report(<<"docker">>)
    ELSE LET args == SubSeq(parts, 3, Len(parts))
             sub == WordLower(parts[2])
         IN  CASE sub \in {<<"stop">>, <<"restart">>, <<"fix">>, <<"logs">>} ->
                      cmdDockerOnName(sub, args, execOK)
               [] sub \in {<<"remove">>, <<"rm">>} -> cmdDockerRemove(args, execOK)
               [] sub = <<"prune">> -> cmdDockerPrune(args, execOK)
               [] OTHER -> Report(<<"docker", "Usage:", "/docker">>)

ReportCommands ==
    { <<"/", w>> : w \in {"start", "help", "status", "ports", "firewall", "fw",
                          "disk", "temp", "temperature", "memory", "mem", "ram",
                          "uptime", "events", "logs", "scan", "ip", "services"} }

\* handleCommand: the replies it sends, in order, and the command it runs.
handleCommand(text, execOK) ==
    LET trimmed == TrimSpace(text)
    IN  IF ~HasPrefix(trimmed, <<"/">>)
        THEN [replies |-> <<>>, action |-> NoAction]
        ELSE LET parts == Fields(trimmed)
                 cmd == WordLower(parts[1])
                 r == CASE cmd \in ReportCommands -> Report(cmd)
                        [] cmd \in {<<"/", "docker">>, <<"/", "containers">>} ->
                               cmdDockerRouter(parts, execOK)
                        [] cmd = <<"/", "reboot">> -> cmdReboot(parts)
                        [] OTHER -> [sent |-> <<>>,
                                     response |-> <<"Unknown", "command:">> \o cmd,
                                     action |-> NoAction]
             IN  [replies |-> Append(r.sent, r.response), action |-> r.action]

\* The chat-id test of poll: the error ParseInt reports is dropped.
Authorized(chat) == chat = ParseInt(botChatID).val

\* What the loop body of poll does with one update.
HandleUpdate(id, update, execOK) ==
    IF ~Authorized(update.chat)
    THEN [id |-> id, chat |-> update.chat, text |-> update.text,
          routed |-> FALSE, replies |-> <<>>, action |-> NoAction]
    ELSE LET r == handleCommand(update.text, execOK)
         IN  [id |-> id, chat |-> update.chat, text |-> update.text,
              routed |-> TRUE, replies |-> r.replies, action |-> r.action]

\* TelegramBotWatcher.Start up to the polling loop (the bot token is set).
BotStart ==
    /\ botPhase = "new"
    /\ botPhase' = IF botChatID = <<>> THEN "disabled" ELSE "polling"
    /\ UNCHANGED <<botChatID, botInteractive, botOffset, botLog, rebootTimer>>
    /\ UNCHANGED daemonVars
    /\ UNCHANGED watchVars
    /\ UNCHANGED extVars

\* One poll that gets a response: the server returns the updates from offset
\* on, numbered consecutively.
Poll(batch, execOK) ==
    /\ botPhase = "polling"
    /\ rebootTimer # "fired"
    /\ botOffset + Len(batch) <= MaxUpdates
    /\ botOffset' = botOffset + Len(batch)
    /\ botLog' = [i \in 1..Len(batch) |-> HandleUpdate(botOffset + i - 1, batch[i], execOK)]
    /\ rebootTimer' =
          IF \E i \in 1..Len(batch) :
                HandleUpdate(botOffset + i - 1, batch[i], execOK).action = <<"reboot">>
          THEN "armed" ELSE rebootTimer
    /\ UNCHANGED <<botPhase, botChatID, botInteractive>>
    /\ UNCHANGED daemonVars
    /\ UNCHANGED watchVars
    /\ UNCHANGED extVars

\* The goroutine of cmdReboot wakes and runs reboot.
RebootFire ==
    /\ rebootTimer = "armed"
    /\ rebootTimer' = "fired"
    /\ UNCHANGED <<botPhase, botChatID, botInteractive, botOffset, botLog>>
    /\ UNCHANGED daemonVars
    /\ UNCHANGED watchVars
    /\ UNCHANGED extVars

----------------------------------------------------------------------------
(* internal/watchers/docker.go *)

AllButPoll == <<daemonVars, watchVars, botVars, busVars, runVars, unitVars>>

\* strings.Contains
Contains(str, sub) ==
    \E i \in 0..(Len(str) - Len(sub)) : SubSeq(str, i + 1, i + Len(sub)) = sub

ContainerIDs == {"c1", "c2"}

\* State and Status of a container as docker ps prints them.
ContainerStates ==
    { [State |-> "running", Status |-> <<"Up">>],
      [State |-> "running", Status |-> <<"Up", "(", "unhealthy", ")">>],
      [State |-> "exited",  Status |-> <<"Exited", "(", "0", ")">>],
      [State |-> "exited",  Status |-> <<"Exited", "(", "1", ")">>] }

\* What fetchContainers can return, keyed by ID as check keys it.
DockerSnapshots ==
    UNION { [ids -> ContainerStates] : ids \in SUBSET ContainerIDs }

\* parseExitCode that reads no status.
parseExitCodeAlwaysZero(status) == 0

\* parseExitCode: the number between the first "(" and the first ")", or 0.
parseExitCode(status) ==
    LET start == Index(status, "(")
        end == Index(status, ")")
    IN  IF start = 0 \/ end <= start THEN 0
        ELSE ParseInt(SubSeq(status, start + 1, end - 1)).val

isUnhealthy(status) == Contains(status, <<"(", "unhealthy", ")">>)

\* The health test of check without the look at the baseline.
becameUnhealthyWhileUnhealthy(prev, c) == isUnhealthy(c.Status)

\* check: the status is unhealthy and the baseline's was not.
becameUnhealthy(prev, c) == isUnhealthy(c.Status) /\ ~isUnhealthy(prev.Status)

dockerEvent(type, sev, id, msg) == [type |-> type, sev |-> sev, id |-> id, msg |-> msg]

\* The events the loop body of check publishes for container id.
dockerEventsFor(id, baseline, current) ==
    LET c == current[id]
    IN  IF id \notin DOMAIN baseline
        THEN IF c.State = "running"
             THEN { dockerEvent("docker.container_start", SeverityInfo, id,
                                <<"Container started:", id>>) }
             ELSE {}
        ELSE
          LET prev == baseline[id]
              exitCode == parseExitCode(c.Status)
          IN  (IF prev.State = "running" /\ c.State = "exited"
               THEN IF exitCode # 0
                    THEN { dockerEvent("docker.container_died", SeverityWarning, id,
                                       <<"Container crashed:", id, exitCode>>) }
                    ELSE IF alertOnStop
                    THEN { dockerEvent("docker.container_stopped", SeverityInfo, id,
                                       <<"Container stopped:", id>>) }
                    ELSE {}
               ELSE {})
              \cup
              (IF becameUnhealthy(prev, c)
               THEN { dockerEvent("docker.container_unhealthy", SeverityWarning, id,
                                  <<"Container unhealthy:", id>>) }
               ELSE {})
              \cup
              (IF prev.State = "exited" /\ c.State = "running"
               THEN { dockerEvent("docker.container_start", SeverityInfo, id,
                                  <<"Container restarted:", id>>) }
               ELSE {})

\* The events one run of check publishes.
dockerCheckEvents(baseline, current) ==
    UNION { dockerEventsFor(id, baseline, current) : id \in DOMAIN current }

\* check that takes a failed docker ps for an empty list.
dockerAfterFailureEmptied(baseline) == << >>

\* The baseline check leaves when fetchContainers fails: it returns first.
dockerAfterFailure(baseline) == baseline

\* DockerWatcher.Start up to the ticker loop; current is the containers
\* that exist then, whether or not docker ps could list them.
DockerStart(fetchOK, current) ==
    /\ dockerPhase = "new"
    /\ dockerPhase' = "running"
    /\ dockerBaseline' = IF fetchOK THEN current ELSE dockerBaseline
    /\ dockerOp' = [kind |-> "start", ok |-> fetchOK, before |-> dockerBaseline,
                    snapshot |-> IF fetchOK THEN current ELSE << >>, events |-> {},
                    present |-> current]
    /\ UNCHANGED <<watcherOn, alertOnStop, alertOnLeave, netPhase, netBaseline, netOp>>
    /\ UNCHANGED AllButPoll

\* One ticker firing: DockerWatcher.check.
DockerCheck(fetchOK, current) ==
    /\ dockerPhase = "running"
    /\ dockerBaseline' = IF fetchOK THEN current ELSE dockerAfterFailure(dockerBaseline)
    /\ dockerOp' = [kind |-> "check", ok |-> fetchOK, before |-> dockerBaseline,
                    snapshot |-> IF fetchOK THEN current ELSE << >>,
                    events |-> IF fetchOK THEN dockerCheckEvents(dockerBaseline, current)
                               ELSE {}]
    /\ UNCHANGED <<watcherOn, alertOnStop, alertOnLeave, dockerPhase,
                   netPhase, netBaseline, netOp>>
    /\ UNCHANGED AllButPoll

----------------------------------------------------------------------------
(* internal/watchers/network.go *)

\* Lines of ip neigh show, already split into fields.
NeighLines ==
    { <<"192.168.1.5", "dev", "eth0", "lladdr", "AA:01", "REACHABLE">>,
      <<"192.168.1.6", "dev", "eth0", "lladdr", "bb:02", "STALE">>,
      <<"192.168.1.7", "dev", "eth0", "FAILED">> }

\* w.ignoreMACs
IgnoreMACs == {}

\* parseIPNeigh skips the line: no device answered, or it has no MAC.
skipNeighLine(fields) ==
    LET state == fields[Len(fields)]
        lladdrIdx == Index(fields, "lladdr")
    IN  \/ state \in {"FAILED", "INCOMPLETE"}
        \/ lladdrIdx = 0
        \/ lladdrIdx + 1 > Len(fields)

\* The device parseIPNeigh makes of a line it does not skip.
parseNeighLine(fields) ==
    [IP |-> fields[1], MAC |-> ToLower(fields[Index(fields, "lladdr") + 1])]

\* parseIPNeigh and the loop that keys the devices by MAC (the lines of this
\* model carry different MACs).
NeighMap(lines) ==
    LET devices == {parseNeighLine(l) : l \in {x \in lines : ~skipNeighLine(x)}}
    IN  [mac \in {d.MAC : d \in devices} |-> CHOOSE d \in devices : d.MAC = mac]

netEvent(type, device) ==
    [type |-> type, sev |-> SeverityInfo, mac |-> device.MAC,
     msg |-> <<type, device.IP, device.MAC>>]

\* The events one run of check publishes.
netCheckEvents(baseline, current) ==
    { netEvent("network.new_device", current[mac]) :
        mac \in {m \in DOMAIN current : m \notin IgnoreMACs /\ m \notin DOMAIN baseline} }
    \cup
    (IF alertOnLeave
     THEN { netEvent("network.device_left", baseline[mac]) :
              mac \in {m \in DOMAIN baseline : m \notin IgnoreMACs /\ m \notin DOMAIN current} }
     ELSE {})

\* check replacing the baseline by the current snapshot.
netBaselineAfterReplaced(baseline, current) == current

\* The baseline one run of check leaves: departed devices are deleted only
\* when alertLeave is set (and they are not ignored); every current device
\* is written.
netBaselineAfter(baseline, current) ==
    LET kept == IF alertOnLeave
                THEN {m \in DOMAIN baseline : m \in IgnoreMACs \/ m \in DOMAIN current}
                ELSE DOMAIN baseline
    IN  [mac \in kept \cup DOMAIN current |->
            IF mac \in DOMAIN current THEN current[mac] ELSE baseline[mac]]

\* NetworkScanWatcher.Start up to the ticker loop; lines is the neighbour
\* table as it is then, whether or not ip neigh could be run.
NetStart(runOK, lines) ==
    /\ netPhase = "new"
    /\ netPhase' = "running"
    /\ netBaseline' = IF runOK THEN NeighMap(lines) ELSE netBaseline
    /\ netOp' = [kind |-> "start", ok |-> runOK, before |-> netBaseline,
                 snapshot |-> IF runOK THEN NeighMap(lines) ELSE << >>, events |-> {},
                 present |-> NeighMap(lines)]
    /\ UNCHANGED <<watcherOn, alertOnStop, alertOnLeave,
                   dockerPhase, dockerBaseline, dockerOp>>
    /\ UNCHANGED AllButPoll

\* One ticker firing: NetworkScanWatcher.check.
NetCheck(runOK, lines) ==
    /\ netPhase = "running"
    /\ netBaseline' = IF runOK THEN netBaselineAfter(netBaseline, NeighMap(lines))
                      ELSE netBaseline
    /\ netOp' = [kind |-> "check", ok |-> runOK, before |-> netBaseline,
                 snapshot |-> IF runOK THEN NeighMap(lines) ELSE << >>,
                 events |-> IF runOK THEN netCheckEvents(netBaseline, NeighMap(lines))
                            ELSE {}]
    /\ UNCHANGED <<watcherOn, alertOnStop, alertOnLeave, netPhase,
                   dockerPhase, dockerBaseline, dockerOp>>
    /\ UNCHANGED AllButPoll

----------------------------------------------------------------------------
(* internal/watchers/sectools.go *)

\* The longest log file considered, in tokens.
MaxLogLen == 3

\* What a log file is made of: a token stands for a run of bytes.
LogTokens == {"FOUND", "No such file", "ok", "\n"}
LogContents == UNION {[1..n -> LogTokens] : n \in 0..MaxLogLen}

\* bufio.ScanLines' dropCR.
dropCR(line) ==
    IF line # <<>> /\ line[Len(line)] = "\r"
    THEN SubSeq(line, 1, Len(line) - 1)
    ELSE line

\* bufio.Scanner with ScanLines: the lines of data, the last one whether
\* or not a newline ends it.
RECURSIVE ScanLines(_)
ScanLines(data) ==
    IF data = <<>> THEN <<>>
    ELSE LET i == Index(data, "\n")
         IN  IF i = 0 THEN <<dropCR(data)>>
             ELSE <<dropCR(SubSeq(data, 1, i - 1))>>
                  \o ScanLines(SubSeq(data, i + 1, Len(data)))

isClamAVMatch(line) ==
    Contains(line, <<"FOUND">>) /\ ~Contains(line, <<"No such file">>)

\* What the reads after f.Seek(offset, io.SeekStart) return.
ReadFrom(content, offset) ==
    IF offset >= Len(content) THEN <<>>
    ELSE SubSeq(content, offset + 1, Len(content))

\* f.Seek(0, io.SeekCurrent) once the scanner has read to the end.
PosAfterRead(content, offset) ==
    IF offset > Len(content) THEN offset ELSE Len(content)

\* scanLog never going back to the top of the file.
rotationResetNever(offset, size) == offset

\* scanLog's rotation test: the offset the read starts from.
rotationReset(offset, size) == IF size < offset THEN 0 ELSE offset

secEvent(line) ==
    [type |-> "malware.found", sev |-> SeverityCritical, msg |-> line]

RECURSIVE secEvents(_)
secEvents(lines) ==
    IF lines = <<>> THEN <<>>
    ELSE (IF isClamAVMatch(Head(lines)) THEN <<secEvent(Head(lines))>> ELSE <<>>)
         \o secEvents(Tail(lines))

\* Start up to the ticker: the offset is the size of the log, if it exists.
SecStart(exists, content) ==
    /\ secPhase = "init"
    /\ secPhase' = "running"
    /\ secOffset' = IF exists THEN Len(content) ELSE secOffset
    /\ secOp' = [kind |-> "start", ok |-> exists]
    /\ UNCHANGED AllButSec

\* One scanLog(ClamAVLog, malware.found, isClamAVMatch) of a tick.
SecScan(exists, openOK, content) ==
    /\ secPhase = "running"
    /\ LET start == rotationReset(secOffset, Len(content))
           lines == ScanLines(ReadFrom(content, start))
       IN  IF ~exists
           THEN /\ secOffset' = secOffset
                /\ secOp' = [kind |-> "scan", ok |-> FALSE]
           ELSE IF ~openOK
           THEN /\ secOffset' = start
                /\ secOp' = [kind |-> "scan", ok |-> FALSE]
           ELSE /\ secOffset' = PosAfterRead(content, start)
                /\ secOp' = [kind |-> "scan", ok |-> TRUE, before |-> secOffset,
                             content |-> content, evaluated |-> lines,
                             events |-> secEvents(lines)]
    /\ UNCHANGED secPhase
    /\ UNCHANGED AllButSec

----------------------------------------------------------------------------
(* internal/watchers/inotify_linux.go *)

\* The watched path, a regular file.
FimPath == <<"/etc/passwd">>

\* What the file can be when the watcher looks at it: gone or unreadable,
\* or holding one of three contents.
Unreadable == "unreadable"
FimFiles == {Unreadable, "v1", "v2", "v3"}

\* Watch descriptors the kernel reports: the watch added by Start and one
\* the watcher does not know.
FimWds == {1, 2}

FimMasks == {"IN_CLOSE_WRITE", "IN_ATTRIB", "IN_DELETE_SELF", "IN_CREATE",
             "IN_DELETE", "IN_IGNORED"}

\* hashFile: the hex digest of the content, "" when the file cannot be read.
hashFile(file) ==
    IF file = Unreadable THEN <<>> ELSE <<"sha256", file>>

\* m[k] of a Go map of strings: "" for a missing key.
MapGet(m, k) == IF k \in DOMAIN m THEN m[k] ELSE <<>>

MapPut(m, k, v) == [x \in DOMAIN m \cup {k} |-> IF x = k THEN v ELSE m[x]]

\* addWatch's severity of a watch path.
watchSeverity(sev) ==
    IF sev = "critical" THEN SeverityCritical ELSE SeverityWarning

\* Start up to the poll loop: addWatch of the one configured path.
FimStart(file, sev, watchOK) ==
    /\ fimPhase = "new"
    /\ fimPhase' = "running"
    /\ IF file = Unreadable \/ ~watchOK
       THEN UNCHANGED <<fimWds, fimHashes>>
       ELSE /\ fimWds' = MapPut(fimWds, 1,
                               [path |-> FimPath, severity |-> watchSeverity(sev)])
            /\ fimHashes' = IF hashFile(file) # <<>>
                            THEN MapPut(fimHashes, FimPath, hashFile(file))
                            ELSE fimHashes
    /\ fimOp' = [kind |-> "start"]
    /\ UNCHANGED AllButFim

\* dispatchEvent publishing on every close-after-write of a file that has
\* a baseline.
skipModifiedNoBaselineOnly(oldHash, newHash) == oldHash = <<>>

\* dispatchEvent's test for a close-after-write that is not reported.
skipModified(oldHash, newHash) == oldHash = <<>> \/ oldHash = newHash

fimEvent(entry, changeType) ==
    [type |-> "file.changed", sev |-> entry.severity, change |-> changeType]

\* The change type dispatchEvent reports for a mask other than
\* IN_CLOSE_WRITE, "" when it returns without publishing.
changeTypeOf(mask, file) ==
    CASE mask = "IN_ATTRIB" -> IF file = Unreadable THEN "" ELSE "attrib"
      [] mask = "IN_DELETE_SELF" -> "deleted"
      [] mask = "IN_CREATE" -> "created"
      [] mask = "IN_DELETE" -> "removed"
      [] OTHER -> ""

\* dispatchEvent(wd, mask, "", hostname) with the file as it is when the
\* watcher looks at it.  Slicing an empty newHash panics, and a panic in
\* the watcher's goroutine ends the process.
FimDispatch(wd, mask, file) ==
    /\ fimPhase = "running"
    /\ IF wd \notin DOMAIN fimWds
       THEN /\ fimOp' = [kind |-> "dispatch", mask |-> mask, known |-> FALSE,
                         events |-> {}]
            /\ UNCHANGED <<fimPhase, fimWds, fimHashes>>
       ELSE LET entry == fimWds[wd]
                newHash == hashFile(file)
                oldHash == MapGet(fimHashes, entry.path)
            IN  IF mask = "IN_CLOSE_WRITE"
                THEN /\ fimHashes' = IF newHash # <<>>
                                     THEN MapPut(fimHashes, entry.path, newHash)
                                     ELSE fimHashes
                     /\ fimPhase' = IF ~skipModified(oldHash, newHash)
                                       /\ newHash = <<>>
                                    THEN "crashed" ELSE fimPhase
                     /\ fimOp' = [kind |-> "dispatch", mask |-> mask,
                                  known |-> TRUE,
                                  oldHash |-> oldHash, newHash |-> newHash,
                                  events |->
                                    IF ~skipModified(oldHash, newHash)
                                       /\ newHash # <<>>
                                    THEN {fimEvent(entry, "modified")}
                                    ELSE {}]
                     /\ UNCHANGED fimWds
                ELSE /\ fimOp' = [kind |-> "dispatch", mask |-> mask,
                                  known |-> TRUE,
                                  events |->
                                    IF changeTypeOf(mask, file) = "" THEN {}
                                    ELSE {fimEvent(entry,
                                                   changeTypeOf(mask, file))}]
                     /\ UNCHANGED <<fimPhase, fimWds, fimHashes>>
    /\ UNCHANGED AllButFim

----------------------------------------------------------------------------
(* internal/daemon/daemon.go: Run, from the wait for a signal to its return *)

AllButRun == <<daemonVars, watchVars, botVars, busVars, pollVars, unitVars>>

\* d.watchers, in the order New registers them.
RunWatchers ==
    <<"netlink", "firewall", "system", "inotify", "telegram-bot", "sectools",
      "docker">>

\* The watchers whose Start can return before the context is cancelled (the
\* initial port scan or inotify_init1 fails, the bot has no token or chat).
StartCanFail == {"netlink", "inotify", "telegram-bot"}

\* The goroutines Run adds to its WaitGroup: one per watcher, the daily
\* summary scheduler and the deduplicator cleanup.
RunTaskNames ==
    {RunWatchers[i] : i \in 1..Len(RunWatchers)} \cup {"summary", "cleanup"}

\* Run with the store closed before the WaitGroup is waited for.
RunStmtsCloseBeforeWait == <<"recv", "cancel", "close", "wait", "stop">>

\* The statements of Run from <-sigCh on, in program order.
RunStmts == <<"recv", "cancel", "wait", "stop", "close">>

\* Run is about to execute statement s.
RunAt(s) == runPc <= Len(RunStmts) /\ RunStmts[runPc] = s

AllReturned == \A n \in RunTaskNames : runTasks[n] = "returned"

\* SIGINT or SIGTERM arrives; sigCh buffers one signal.
Signal ==
    /\ ~runSignal
    /\ runSignal' = TRUE
    /\ UNCHANGED <<runPc, ctxDone, runTasks, runStopped, storeOpen>>
    /\ UNCHANGED AllButRun

\* <-sigCh
RunRecv ==
    /\ RunAt("recv")
    /\ runSignal
    /\ runSignal' = FALSE
    /\ runPc' = runPc + 1
    /\ UNCHANGED <<ctxDone, runTasks, runStopped, storeOpen>>
    /\ UNCHANGED AllButRun

\* cancel()
RunCancel ==
    /\ RunAt("cancel")
    /\ ctxDone' = TRUE
    /\ runPc' = runPc + 1
    /\ UNCHANGED <<runSignal, runTasks, runStopped, storeOpen>>
    /\ UNCHANGED AllButRun

\* A goroutine's loop that does not watch ctx.Done(): it ends only when Start
\* fails.
TaskReturnOnlyOnError(n) ==
    /\ runTasks[n] = "running"
    /\ n \in StartCanFail
    /\ runTasks' = [runTasks EXCEPT ![n] = "returned"]
    /\ UNCHANGED <<runPc, runSignal, ctxDone, runStopped, storeOpen>>
    /\ UNCHANGED AllButRun

\* A goroutine of the WaitGroup returns: its loop saw ctx.Done(), or the
\* watcher's Start returned an error.
TaskReturn(n) ==
    /\ runTasks[n] = "running"
    /\ ctxDone \/ n \in StartCanFail
    /\ runTasks' = [runTasks EXCEPT ![n] = "returned"]
    /\ UNCHANGED <<runPc, runSignal, ctxDone, runStopped, storeOpen>>
    /\ UNCHANGED AllButRun

\* A goroutine leaves its select for the body of an iteration: the ticker or
\* time.After fired (select picks any ready case, also after the context is
\* cancelled), inotify data arrived before the self-pipe byte, or the bot's
\* select took its default case, which it does only while ctx.Done() is not
\* ready.
TaskIterate(n) ==
    /\ runTasks[n] = "running"
    /\ n = "telegram-bot" => ~ctxDone
    /\ runTasks' = [runTasks EXCEPT ![n] = "busy"]
    /\ UNCHANGED <<runPc, runSignal, ctxDone, runStopped, storeOpen>>
    /\ UNCHANGED AllButRun

\* The body of an iteration ends (a check, a poll, the summary's SendRaw loop
\* and its time.Sleep, none of which watches the context) and the goroutine
\* is back at its select.
TaskBodyDone(n) ==
    /\ runTasks[n] = "busy"
    /\ runTasks' = [runTasks EXCEPT ![n] = "running"]
    /\ UNCHANGED <<runPc, runSignal, ctxDone, runStopped, storeOpen>>
    /\ UNCHANGED AllButRun

\* wg.Wait() returns once every goroutine has called Done.
RunWait ==
    /\ RunAt("wait")
    /\ AllReturned
    /\ runPc' = runPc + 1
    /\ UNCHANGED <<runSignal, ctxDone, runTasks, runStopped, storeOpen>>
    /\ UNCHANGED AllButRun

\* One iteration of the loop that calls w.Stop() on each watcher; the loop
\* is left after the last watcher.
RunStop ==
    /\ RunAt("stop")
    /\ LET next == Len(runStopped) + 1
       IN  /\ runStopped' = Append(runStopped, RunWatchers[next])
           /\ runPc' = IF next = Len(RunWatchers) THEN runPc + 1 ELSE runPc
    /\ UNCHANGED <<runSignal, ctxDone, runTasks, storeOpen>>
    /\ UNCHANGED AllButRun

\* d.store.Close()
RunClose ==
    /\ RunAt("close")
    /\ storeOpen' = FALSE
    /\ runPc' = runPc + 1
    /\ UNCHANGED <<runSignal, ctxDone, runTasks, runStopped>>
    /\ UNCHANGED AllButRun

\* time.After(1 * time.Minute) and time.Sleep(61 * time.Second), in seconds.
SummaryPeriod == 60
SummarySleep  == 61

SecondsPerMinute == 60

\* Minutes in a day of the model, and the days a behaviour covers.
DayMinutes == 3
MaxSummaryDays == 2

\* How late a timer or a sleep can end, and how long the SendRaw loop can
\* take, in seconds.
MaxLag == 1
MaxSendTime == 1

\* now.Hour() and now.Minute() as the minute of the day.
MinuteOfDay(t) == (t \div SecondsPerMinute) % DayMinutes

\* runDailySummary polling every second and not sleeping after a send.
nextCheckEverySecond(t, sent, dur, lag) == t + 1 + lag

\* When the timer of the next iteration fires: after a send the loop
\* sleeps before it comes back to the select.
nextCheck(t, sent, dur, lag) ==
    IF sent THEN t + dur + SummarySleep + SummaryPeriod + lag
    ELSE t + SummaryPeriod + lag

\* One iteration of runDailySummary's loop whose timer fires at sumNow: the
\* minute is compared with the setting and, on a match, the summary is sent
\* to the notifiers and the loop sleeps.
SummaryTick(lag, dur) ==
    /\ sumNow <= MaxSummaryDays * DayMinutes * SecondsPerMinute
    /\ LET sent == sumMinute # -1 /\ MinuteOfDay(sumNow) = sumMinute
       IN  /\ sumSends' = IF sent THEN Append(sumSends, sumNow) ELSE sumSends
           /\ sumNow' = nextCheck(sumNow, sent, dur, lag)
    /\ UNCHANGED sumMinute
    /\ UNCHANGED AllButSum

\* Run returns after the store is closed, main returns and the process
\* ends with whatever goroutines are left.
RunReturn ==
    /\ runPc = Len(RunStmts) + 1
    /\ runPc' = runPc + 1
    /\ UNCHANGED <<runSignal, ctxDone, runTasks, runStopped, storeOpen>>
    /\ UNCHANGED AllButRun

\* The process has not ended.
ProcessAlive == runPc <= Len(RunStmts) + 1

\* A watcher whose goroutine is running publishes an event.
WatcherPublish(n, e) ==
    /\ runTasks[n] = "running"
    /\ Publish(e)

\* A goroutine started by Bus.Publish executes its next statement; Run's
\* WaitGroup does not count these goroutines.
Delivery(i) ==
    /\ ProcessAlive
    /\ \/ HandleSave(i)
       \/ HandleGate(i)
       \/ HandleNotify(i, NoFailure)

----------------------------------------------------------------------------
(* SystemWatcher (disk, memory, CPU temperature) *)

\* Cfg.System thresholds of the default configuration.
DiskThreshold   == 80
MemoryThreshold == 90
TempThreshold   == 75

\* What getDiskUsage and getMemoryUsage return (per cent) and what
\* getCPUTemp returns, in tenths of a degree; 0 when the sensor cannot be
\* read.  The disk fills up while memory stays low and the board has no
\* temperature sensor.
DiskReadings == {70, 91, 92}
MemReadings  == {50}
TempReadings == {0}

DigitChar(d) ==
    CASE d = 0 -> "0" [] d = 1 -> "1" [] d = 2 -> "2" [] d = 3 -> "3"
      [] d = 4 -> "4" [] d = 5 -> "5" [] d = 6 -> "6" [] d = 7 -> "7"
      [] d = 8 -> "8" [] d = 9 -> "9"

RECURSIVE FormatNat(_)
FormatNat(n) ==
    IF n < 10 THEN <<DigitChar(n)>> ELSE FormatNat(n \div 10) \o <<DigitChar(n % 10)>>

\* fmt.Sprintf("%.1f", temp) for a temperature held in tenths.
FormatTenths(t) == FormatNat(t \div 10) \o <<".", DigitChar(t % 10)>>

\* An event of the system watcher as Bus.Publish hands it on; the Message
\* carries the value measured.
sysEvent(type, message) ==
    [type |-> type, sev |-> SeverityWarning, port |-> NoPayload,
     chain |-> NoPayload, msg |-> message, ts |-> now,
     id |-> <<type, NoPayload, NoPayload, now>>]

\* The events check publishes for one set of readings, in order.
sysCheckEvents(disk, mem, temp) ==
    (IF disk > DiskThreshold
     THEN << sysEvent("system.disk_high",
                      <<"Disk usage at ">> \o FormatNat(disk)
                      \o <<"% (threshold: ">> \o FormatNat(DiskThreshold) \o <<"%)">>) >>
     ELSE <<>>)
    \o (IF mem > MemoryThreshold
        THEN << sysEvent("system.memory_high",
                         <<"Memory usage at ">> \o FormatNat(mem)
                         \o <<"% (threshold: ">> \o FormatNat(MemoryThreshold) \o <<"%)">>) >>
        ELSE <<>>)
    \o (IF temp > 0 /\ temp \div 10 > TempThreshold
        THEN << sysEvent("system.temp_high",
                         <<"CPU temperature at ">> \o FormatTenths(temp)
                         \o <<"C (threshold: ">> \o FormatNat(TempThreshold) \o <<"C)">>) >>
        ELSE <<>>)

\* The goroutines Bus.Publish starts for a sequence of events published one
\* after the other.
RECURSIVE PublishAll(_)
PublishAll(events) ==
    IF events = <<>> THEN <<>>
    ELSE [i \in 1..Len(handlers) |-> NewTask(Head(events), handlers[i])]
         \o PublishAll(Tail(events))

\* One ticker firing: SystemWatcher.check.
SysCheck(disk, mem, temp) ==
    /\ handlers # <<>>
    /\ LET events == sysCheckEvents(disk, mem, temp)
       IN  /\ Len(tasks) + Len(events) * Len(handlers) <= MaxEvents
           /\ tasks' = tasks \o PublishAll(events)
    /\ UNCHANGED <<now, handlers, seen, calls, storeUp, store>>
    /\ UNCHANGED watchVars
    /\ UNCHANGED botVars
    /\ UNCHANGED extVars

----------------------------------------------------------------------------
(* Specifications *)

NoOp == [kind |-> "none"]

InitDaemon ==
    /\ now = 0
    /\ handlers = <<>>
    /\ tasks = <<>>
    /\ seen = << >>
    /\ calls = <<>>
    /\ storeUp \in BOOLEAN
    /\ store = {}

InitWatchIdle ==
    /\ portPhase = "new"
    /\ portBaseline = << >>
    /\ portOp = NoOp
    /\ fwPhase = "new"
    /\ fwBaselines = << >>
    /\ fwOp = NoOp
    /\ fwChains = DefaultChains

InitBotIdle ==
    /\ botPhase = "new"
    /\ botChatID = <<>>
    /\ botInteractive = FALSE
    /\ botOffset = 0
    /\ botLog = <<>>
    /\ rebootTimer = "idle"

InitBusIdle ==
    /\ busHandlers = <<>>
    /\ busTasks = <<>>
    /\ busPubs = <<>>
    /\ procUp = TRUE

InitRunIdle ==
    /\ runPc = 1
    /\ runSignal = FALSE
    /\ ctxDone = FALSE
    /\ runTasks = << >>
    /\ runStopped = <<>>
    /\ storeOpen = TRUE

InitPollIdle ==
    /\ watcherOn = "none"
    /\ alertOnStop = FALSE
    /\ alertOnLeave = FALSE
    /\ dockerPhase = "new"
    /\ dockerBaseline = << >>
    /\ dockerOp = NoOp
    /\ netPhase = "new"
    /\ netBaseline = << >>
    /\ netOp = NoOp

InitParseIdle ==
    /\ ssIn = <<>>
    /\ ssOut = NoOp

InitSecIdle ==
    /\ secPhase = "init"
    /\ secOffset = 0
    /\ secOp = NoOp

InitFimIdle ==
    /\ fimPhase = "new"
    /\ fimWds = << >>
    /\ fimHashes = << >>
    /\ fimOp = NoOp

InitPruneIdle == pruneOp = NoOp

InitSumIdle ==
    /\ sumMinute = -1
    /\ sumNow = 0
    /\ sumSends = <<>>

InitUnitIdle ==
    /\ InitParseIdle
    /\ InitSecIdle
    /\ InitFimIdle
    /\ InitPruneIdle
    /\ InitSumIdle

InitExtIdle == InitBusIdle /\ InitRunIdle /\ InitPollIdle /\ InitUnitIdle

\* The daemon's own state when only watchers run.
InitDaemonIdle == InitDaemon /\ storeUp

\* Everything but the unit specifications' variables, idle.
InitCoreIdle ==
    /\ InitDaemonIdle
    /\ InitWatchIdle
    /\ InitBotIdle
    /\ InitBusIdle
    /\ InitRunIdle
    /\ InitPollIdle

InitWatch == InitDaemonIdle /\ InitWatchIdle /\ InitBotIdle /\ InitExtIdle

\* NewTelegramBotWatcher, which New calls when the Telegram notifier is
\* enabled: the chat id and the interactive flag are whatever the
\* configuration holds.
InitBot ==
    /\ InitDaemonIdle
    /\ InitWatchIdle
    /\ botPhase = "new"
    /\ botChatID \in ChatIDs
    /\ botInteractive \in BOOLEAN
    /\ botOffset = 0
    /\ botLog = <<>>
    /\ rebootTimer = "idle"
    /\ InitExtIdle

Init == InitDaemon /\ InitWatchIdle /\ InitBotIdle /\ InitExtIdle

Next ==
    \/ Subscribe
    \/ \E e \in FirewallEvents : Publish(e)
    \/ \E i \in 1..MaxEvents : HandleSave(i)
    \/ \E i \in 1..MaxEvents : HandleGate(i)
    \/ \E i \in 1..MaxEvents : HandleNotify(i, NoFailure)
    \/ CleanupTick
    \/ Tick

Spec == Init /\ [][Next]_vars

\* The pipeline with a store that accepts writes and notifiers whose Send
\* can fail.
InitNotify == InitDaemonIdle /\ InitWatchIdle /\ InitBotIdle /\ InitExtIdle

NextNotify ==
    \/ Subscribe
    \/ \E e \in FirewallEvents : Publish(e)
    \/ \E i \in 1..MaxEvents : HandleSave(i)
    \/ \E i \in 1..MaxEvents : HandleGate(i)
    \/ \E i \in 1..MaxEvents, failing \in SUBSET NotifierSet : HandleNotify(i, failing)
    \/ Tick

SpecNotify == InitNotify /\ [][NextNotify]_vars

\* Alerts.MinSeverity of the default configuration ("warning").
MinSeverity == SeverityWarning

\* The pipeline fed with an Info port event and a Critical firewall event.
FilterEvents ==
    {e \in EventPool : \/ e.sev = SeverityInfo
                       \/ e.sev = SeverityCritical /\ e.chain # NoPayload}

NextFilter ==
    \/ Subscribe
    \/ \E e \in FilterEvents : Publish(e)
    \/ \E i \in 1..MaxEvents : HandleSave(i)
    \/ \E i \in 1..MaxEvents : HandleGate(i)
    \/ \E i \in 1..MaxEvents : HandleNotify(i, NoFailure)
    \/ Tick

SpecFilter == InitNotify /\ [][NextFilter]_vars

\* The pipeline fed by the system watcher.
NextSys ==
    \/ Subscribe
    \/ \E disk \in DiskReadings, mem \in MemReadings, temp \in TempReadings :
           SysCheck(disk, mem, temp)
    \/ \E i \in 1..MaxEvents : HandleSave(i)
    \/ \E i \in 1..MaxEvents : HandleGate(i)
    \/ \E i \in 1..MaxEvents : HandleNotify(i, NoFailure)
    \/ Tick

SpecSys == InitNotify /\ [][NextSys]_vars

NextDedup ==
    \/ \E e \in EventPool : CallShouldAlert(e)
    \/ CallCleanup
    \/ Tick

SpecDedup == Init /\ [][NextDedup]_vars

\* The deduplicator called with the events that differ in one part of the
\* key.
NextKey ==
    \/ \E e \in KeyEvents : CallShouldAlert(e)
    \/ Tick

SpecKey == Init /\ [][NextKey]_vars

NextBus ==
    \/ \E kind \in HandlerKinds : BusSubscribe(kind)
    \/ \E e \in FirewallEvents : BusPublish(e)
    \/ \E i \in 1..(MaxHandlers * MaxPublishes) : HandlerRun(i)

SpecBus == InitWatch /\ [][NextBus]_vars

\* A listening address that is neither a wildcard nor ignored.
LanAddr == <<"192.168.1.10", ":", "53">>

AddrsPoll == Addrs \cup {LanAddr}

\* daemon.New registers the watchers the configuration enables; here one
\* polling watcher at a time, each with its own baseline.
InitPoll ==
    /\ InitDaemonIdle
    /\ InitWatchIdle
    /\ InitBotIdle
    /\ InitBusIdle
    /\ InitRunIdle
    /\ InitUnitIdle
    /\ watcherOn \in {"netlink", "docker", "network-scan"}
    /\ alertOnStop \in (IF watcherOn = "docker" THEN BOOLEAN ELSE {FALSE})
    /\ alertOnLeave \in (IF watcherOn = "network-scan" THEN BOOLEAN ELSE {FALSE})
    /\ dockerPhase = "new"
    /\ dockerBaseline = << >>
    /\ dockerOp = NoOp
    /\ netPhase = "new"
    /\ netBaseline = << >>
    /\ netOp = NoOp

NextPoll ==
    \/ /\ watcherOn = "netlink"
       /\ \E scanOK \in BOOLEAN, listening \in SUBSET AddrsPoll :
              PortStart(scanOK, listening)
    \/ /\ watcherOn = "netlink"
       /\ \E scanOK \in BOOLEAN, listening \in SUBSET AddrsPoll :
              PortCheck(scanOK, listening)
    \/ /\ watcherOn = "docker"
       /\ \E fetchOK \in BOOLEAN, current \in DockerSnapshots : DockerStart(fetchOK, current)
    \/ /\ watcherOn = "docker"
       /\ \E fetchOK \in BOOLEAN, current \in DockerSnapshots : DockerCheck(fetchOK, current)
    \/ /\ watcherOn = "network-scan"
       /\ \E runOK \in BOOLEAN, lines \in SUBSET NeighLines : NetStart(runOK, lines)
    \/ /\ watcherOn = "network-scan"
       /\ \E runOK \in BOOLEAN, lines \in SUBSET NeighLines : NetCheck(runOK, lines)

SpecPoll == InitPoll /\ [][NextPoll]_vars

\* Run has started every goroutine and waits for a signal.
InitShutdown ==
    /\ InitDaemonIdle
    /\ InitWatchIdle
    /\ InitBotIdle
    /\ InitBusIdle
    /\ InitPollIdle
    /\ InitUnitIdle
    /\ runPc = 1
    /\ runSignal = FALSE
    /\ ctxDone = FALSE
    /\ runTasks = [n \in RunTaskNames |-> "running"]
    /\ runStopped = <<>>
    /\ storeOpen = TRUE

NextShutdown ==
    \/ Signal
    \/ RunRecv
    \/ RunCancel
    \/ \E n \in RunTaskNames : TaskReturn(n)
    \/ RunWait
    \/ RunStop
    \/ RunClose

SpecShutdown == InitShutdown /\ [][NextShutdown]_vars

\* Run and its goroutines with the iterations of their loops.
NextShutdownLive ==
    \/ Signal
    \/ RunRecv
    \/ RunCancel
    \/ \E n \in RunTaskNames : TaskIterate(n)
    \/ \E n \in RunTaskNames : TaskBodyDone(n)
    \/ \E n \in RunTaskNames : TaskReturn(n)
    \/ RunWait
    \/ RunStop
    \/ RunClose

\* The scheduler runs Run when it can take a step; while bodies of iterations
\* are running, one of them ends; and while selects with a ready ctx.Done()
\* case are executed again and again, one of them takes that case (select
\* picks among the ready cases at random).  Each is implied by the fairness
\* of the Go scheduler towards every single goroutine.
FairShutdown ==
    /\ WF_vars(RunCancel \/ RunWait \/ RunStop \/ RunClose)
    /\ WF_vars(\E n \in RunTaskNames : TaskBodyDone(n))
    /\ SF_vars(ctxDone /\ \E n \in RunTaskNames : TaskReturn(n))

SpecShutdownLive == InitShutdown /\ [][NextShutdownLive]_vars /\ FairShutdown

\* Run with the ingest sink subscribed and the firewall watcher publishing
\* while it runs.
DrainEvent == CHOOSE e \in FirewallEvents : e.sev = SeverityCritical

InitDrain ==
    /\ now = 0
    /\ handlers = <<"ingest">>
    /\ tasks = <<>>
    /\ seen = << >>
    /\ calls = <<>>
    /\ storeUp = TRUE
    /\ store = {}
    /\ InitWatchIdle
    /\ InitBotIdle
    /\ InitBusIdle
    /\ InitPollIdle
    /\ InitUnitIdle
    /\ runPc = 1
    /\ runSignal = FALSE
    /\ ctxDone = FALSE
    /\ runTasks = [n \in RunTaskNames |-> "running"]
    /\ runStopped = <<>>
    /\ storeOpen = TRUE

NextDrain ==
    \/ WatcherPublish("firewall", DrainEvent)
    \/ \E i \in 1..MaxEvents : Delivery(i)
    \/ Signal
    \/ RunRecv
    \/ RunCancel
    \/ \E n \in RunTaskNames : TaskReturn(n)
    \/ RunWait
    \/ RunStop
    \/ RunClose
    \/ RunReturn

SpecDrain == InitDrain /\ [][NextDrain]_vars

\* parseSsLine on every local-address field of SsAddrs.
InitParse ==
    /\ InitCoreIdle
    /\ InitPruneIdle
    /\ InitSumIdle
    /\ InitSecIdle
    /\ InitFimIdle
    /\ ssIn \in SsAddrs
    /\ ssOut = NoOp

NextParse == ParseLine

SpecParse == InitParse /\ [][NextParse]_vars

\* The security-tools watcher alone, tailing the ClamAV log.
InitSec ==
    /\ InitCoreIdle
    /\ InitPruneIdle
    /\ InitSumIdle
    /\ InitParseIdle
    /\ InitSecIdle
    /\ InitFimIdle

NextSec ==
    \/ \E exists \in BOOLEAN, content \in LogContents : SecStart(exists, content)
    \/ \E exists \in BOOLEAN, openOK \in BOOLEAN, content \in LogContents :
            SecScan(exists, openOK, content)

SpecSec == InitSec /\ [][NextSec]_vars

\* Store.Prune on every table of PruneTables, at every time of the clock.
PruneIDs == {"e1", "e2", "e3"}

PruneTables ==
    {{[id |-> i, ts |-> ts[i]] : i \in ids} :
        ids \in SUBSET PruneIDs, ts \in [PruneIDs -> 0..MaxTime]}

InitPrune ==
    /\ now \in 0..MaxTime
    /\ handlers = <<>>
    /\ tasks = <<>>
    /\ seen = << >>
    /\ calls = <<>>
    /\ storeUp \in BOOLEAN
    /\ store \in PruneTables
    /\ InitWatchIdle
    /\ InitBotIdle
    /\ InitBusIdle
    /\ InitRunIdle
    /\ InitPollIdle
    /\ InitParseIdle
    /\ InitSecIdle
    /\ InitFimIdle
    /\ InitSumIdle
    /\ pruneOp = NoOp

NextPrune == \E days \in 0..1 : StorePrune(days)

SpecPrune == InitPrune /\ [][NextPrune]_vars

\* runDailySummary alone, started at any second of the first minute with
\* any daily_summary setting.
InitSummary ==
    /\ InitCoreIdle
    /\ InitParseIdle
    /\ InitSecIdle
    /\ InitFimIdle
    /\ pruneOp = NoOp
    /\ sumMinute \in {-1} \cup (0..(DayMinutes - 1))
    /\ sumNow \in SummaryPeriod..(SummaryPeriod + SecondsPerMinute - 1)
    /\ sumSends = <<>>

NextSummary ==
    \E lag \in 0..MaxLag, dur \in 0..MaxSendTime : SummaryTick(lag, dur)

SpecSummary == InitSummary /\ [][NextSummary]_vars

\* The file-integrity watcher alone, with one regular file to watch.
InitFim ==
    /\ InitCoreIdle
    /\ InitPruneIdle
    /\ InitSumIdle
    /\ InitParseIdle
    /\ InitSecIdle
    /\ InitFimIdle

NextFim ==
    \/ \E file \in FimFiles, sev \in {"warning", "critical"},
          watchOK \in BOOLEAN : FimStart(file, sev, watchOK)
    \/ \E wd \in FimWds, mask \in FimMasks, file \in FimFiles :
          FimDispatch(wd, mask, file)

SpecFim == InitFim /\ [][NextFim]_vars

\* The firewall watcher alone, under each configuration of FwConfigs.
InitFw ==
    /\ InitDaemonIdle
    /\ portPhase = "new"
    /\ portBaseline = << >>
    /\ portOp = NoOp
    /\ fwPhase = "new"
    /\ fwBaselines = << >>
    /\ fwOp = NoOp
    /\ fwChains \in FwConfigs
    /\ InitBotIdle
    /\ InitExtIdle

NextFw ==
    \/ \E reads \in [ChainIdx -> RuleReads], policies \in [PolicyChains -> PolicyReads] :
           FwStart(reads, policies)
    \/ \E reads \in [ChainIdx -> RuleReads], policies \in [PolicyChains -> PolicyReads] :
           FwCheck(reads, policies)

SpecFw == InitFw /\ [][NextFw]_vars

NextWatch ==
    \/ \E scanOK \in BOOLEAN, listening \in SUBSET Addrs : PortStart(scanOK, listening)
    \/ \E scanOK \in BOOLEAN, listening \in SUBSET Addrs : PortCheck(scanOK, listening)
    \/ \E reads \in [ChainIdx -> RuleReads], policies \in [PolicyChains -> PolicyReads] :
           FwStart(reads, policies)
    \/ \E reads \in [ChainIdx -> RuleReads], policies \in [PolicyChains -> PolicyReads] :
           FwCheck(reads, policies)

SpecWatch == InitWatch /\ [][NextWatch]_vars

NextBot ==
    \/ BotStart
    \/ \E batch \in Batches, execOK \in BOOLEAN : Poll(batch, execOK)
    \/ RebootFire

SpecBot == InitBot /\ [][NextBot]_vars

----------------------------------------------------------------------------
(* Properties of the pipeline, checked under Spec *)

Gated(i) == tasks[i].gateT >= 0

SameKey(i, j) == dedupKey(tasks[i].ev) = dedupKey(tasks[j].ev)

\* Distance between the clock readings of two ShouldAlert calls.
GateGap(i, j) ==
    IF tasks[i].gateT >= tasks[j].gateT
    THEN tasks[i].gateT - tasks[j].gateT
    ELSE tasks[j].gateT - tasks[i].gateT

\* C1: for every event delivered to the ingest sink, SaveEvent has returned
\* (with or without an error) before any notifier's Send is invoked for that
\* event, whatever the interleaving of the concurrent deliveries.
C1_SaveBeforeNotify ==
    \A i \in 1..Len(tasks) :
        tasks[i].sentTo # {} => tasks[i].saved \in {"ok", "error"}

\* Two deliveries are in flight; one has reached every notifier after a
\* failed store write while the other has not been saved yet.
C1_Witness ==
    \E i, j \in 1..Len(tasks) :
        /\ tasks[i].sentTo = NotifierSet
        /\ tasks[i].saved = "error"
        /\ tasks[j].saved = "pending"

\* C2 as stated: of two events with the same dedup key published in that
\* order with timestamps at most one cooldown apart, the notifiers receive
\* the first and never the second.
C2_FirstPublishedWins ==
    \A i, j \in 1..Len(tasks) :
        (/\ i < j
         /\ SameKey(i, j)
         /\ tasks[j].ev.ts - tasks[i].ev.ts <= Cooldown)
        => /\ tasks[j].sentTo = {}
           /\ (tasks[i].step = Returned => tasks[i].sentTo = NotifierSet)

\* C2 as amended: of two events with the same dedup key whose handlers
\* reach the deduplicator at most one cooldown apart, at most one is sent to
\* any notifier.
C2_AtMostOneNotified ==
    \A i, j \in 1..Len(tasks) :
        (/\ i # j
         /\ SameKey(i, j)
         /\ Gated(i) /\ Gated(j)
         /\ GateGap(i, j) <= Cooldown)
        => ~(tasks[i].sentTo # {} /\ tasks[j].sentTo # {})

\* The later-published of two same-key events published at the same instant
\* overtook the earlier one: it reached every notifier and the earlier one
\* was suppressed.
C2_Witness ==
    \E i, j \in 1..Len(tasks) :
        /\ i < j
        /\ SameKey(i, j)
        /\ tasks[j].ev.ts - tasks[i].ev.ts <= Cooldown
        /\ tasks[j].sentTo = NotifierSet
        /\ tasks[i].step = Returned
        /\ tasks[i].sentTo = {}

----------------------------------------------------------------------------
(* Properties of the deduplicator, checked under SpecDedup *)

SameCallKey(i, j) == dedupKey(calls[i].ev) = dedupKey(calls[j].ev)

\* C3: ShouldAlert returns true for any event whose dedup key has no entry
\* in the deduplicator, whatever the event's type or severity.
C3_FirstOccurrencePasses ==
    \A i \in 1..Len(calls) : ~calls[i].existed => calls[i].result

\* An Info port event and a Critical firewall event, each with no entry for
\* its key, were both let through.
C3_Witness ==
    \E i, j \in 1..Len(calls) :
        /\ ~calls[i].existed /\ calls[i].result
        /\ calls[i].ev.sev = SeverityInfo
        /\ ~calls[j].existed /\ calls[j].result
        /\ calls[j].ev.sev = SeverityCritical

\* C4: any two ShouldAlert calls for the same dedup key that both return
\* true are more than one cooldown apart, after any sequence of ShouldAlert
\* and Cleanup calls (the calls are serialised by d.mu).
C4_PassesMoreThanCooldownApart ==
    \A i, j \in 1..Len(calls) :
        (i < j /\ SameCallKey(i, j) /\ calls[i].result /\ calls[j].result)
        => calls[j].t - calls[i].t > Cooldown

\* Two calls for one key both returned true, the second after Cleanup had
\* removed the entry the first one stored.
C4_Witness ==
    \E i, j \in 1..Len(calls) :
        /\ i < j
        /\ SameCallKey(i, j)
        /\ calls[i].result
        /\ calls[j].result /\ ~calls[j].existed

KeyPart(ev) ==
    IF ev.type \in {"port.opened", "port.closed"} /\ ev.port # NoPayload
    THEN ev.port
    ELSE IF ev.type = "firewall.changed" /\ ev.chain # NoPayload
    THEN ev.chain
    ELSE ev.msg

\* C39: the dedup key of an event is its type combined with the port address
\* for port events that carry a port payload, with the chain for firewall
\* events that carry a firewall payload, and with the message in every other
\* case: two events have the same key exactly when they agree on the type
\* and on that part; so a call within the cooldown of a call that returned
\* true for the same type and address or chain returns false even when the
\* messages differ, and a call whose type no earlier call had returns true.
C39_KeyIsTypeAndPart ==
    \A i, j \in 1..Len(calls) :
        /\ SameCallKey(i, j) <=>
               /\ calls[i].ev.type = calls[j].ev.type
               /\ KeyPart(calls[i].ev) = KeyPart(calls[j].ev)
        /\ (/\ i < j
            /\ calls[i].result
            /\ calls[i].ev.type = calls[j].ev.type
            /\ KeyPart(calls[i].ev) = KeyPart(calls[j].ev)
            /\ calls[j].t - calls[i].t <= Cooldown) => ~calls[j].result
        /\ (\A k \in 1..(j - 1) : calls[k].ev.type # calls[j].ev.type)
               => calls[j].result

\* A port event was suppressed after one of the same type and address with
\* another message, and an event of another type with the same message as
\* an earlier one was let through at the same clock reading.
C39_Witness ==
    /\ \E i, j \in 1..Len(calls) :
          /\ i < j
          /\ calls[i].ev.port # NoPayload
          /\ calls[i].ev.type = calls[j].ev.type
          /\ calls[i].ev.port = calls[j].ev.port
          /\ calls[i].ev.msg # calls[j].ev.msg
          /\ calls[i].result /\ ~calls[j].result
    /\ \E i, j \in 1..Len(calls) :
          /\ i < j
          /\ calls[i].ev.type # calls[j].ev.type
          /\ KeyPart(calls[i].ev) = KeyPart(calls[j].ev)
          /\ calls[i].t = calls[j].t
          /\ calls[i].result /\ calls[j].result

\* The calls before call j that returned true for the key of call j.
PassedBefore(j) == {i \in 1..(j - 1) : SameCallKey(i, j) /\ calls[i].result}

\* The last of a non-empty set of calls.
LastOf(S) == CHOOSE i \in S : \A k \in S : k <= i

\* C34: a ShouldAlert call made more than one cooldown after the last call
\* that returned true for the same key returns true, no matter how many
\* suppressed calls for that key happened in between: a suppressed call
\* does not refresh the stored time.
C34_SuppressedCallsDoNotRefresh ==
    \A j \in 1..Len(calls) :
        (PassedBefore(j) # {}
         /\ calls[j].t - calls[LastOf(PassedBefore(j))].t > Cooldown)
            => calls[j].result

\* A call passed more than one cooldown after the last pass for its key,
\* with a suppressed call for the key in between.
C34_Witness ==
    \E j \in 1..Len(calls) :
        /\ PassedBefore(j) # {}
        /\ calls[j].t - calls[LastOf(PassedBefore(j))].t > Cooldown
        /\ calls[j].result
        /\ \E k \in (LastOf(PassedBefore(j)) + 1)..(j - 1) :
              SameCallKey(k, j) /\ ~calls[k].result

\* The map the first k calls of ShouldAlert leave behind when Cleanup never
\* runs.
RECURSIVE SeenWithoutCleanup(_)
SeenWithoutCleanup(k) ==
    IF k = 0 THEN << >>
    ELSE SeenAfter(SeenWithoutCleanup(k - 1), calls[k].ev, calls[k].t)

\* C40: Cleanup removes exactly the entries whose stored time is more than
\* 2 x cooldown old, and running Cleanup at any point never changes the
\* result of any later ShouldAlert call: a step that leaves the clock and
\* the calls alone keeps exactly the entries at most 2 x cooldown old, with
\* their times, and every call returned what it returns when Cleanup never
\* runs.
C40_CleanupRemovesOldAndIsInvisible ==
    /\ [][(calls' = calls /\ now' = now) =>
             /\ DOMAIN seen' = {k \in DOMAIN seen : now - seen[k] <= 2 * Cooldown}
             /\ \A k \in DOMAIN seen' : seen'[k] = seen[k]]_vars
    /\ [](\A j \in 1..Len(calls) :
             calls[j].result =
                ShouldAlert(SeenWithoutCleanup(j - 1), calls[j].ev, calls[j].t))

\* A call found no entry for a key that an earlier call had stamped more than
\* 2 x cooldown before: Cleanup had removed the entry.
C40_Witness ==
    \E j \in 1..Len(calls) :
        /\ PassedBefore(j) # {}
        /\ calls[j].t - calls[LastOf(PassedBefore(j))].t > 2 * Cooldown
        /\ ~calls[j].existed
        /\ calls[j].result

----------------------------------------------------------------------------
(* Claims about failures in the ingest sink (Spec, SpecNotify) *)

\* C17: when the store write for an event fails, the event still goes
\* through the deduplicator gate and, if it passes, is sent to every
\* notifier: a delivery whose write failed does not return before
\* ShouldAlert was called for it, nor, having passed, before Send was called
\* on every notifier.
C17_FailedSaveStillGatedAndSent ==
    \A i \in 1..Len(tasks) :
        (tasks[i].saved = "error" /\ tasks[i].step = Returned) =>
            /\ tasks[i].gateT >= 0
            /\ tasks[i].passed => tasks[i].sentTo = NotifierSet

\* A delivery whose store write failed has returned after passing the gate
\* and reaching every notifier, and the store holds no row for it.
C17_Witness ==
    \E i \in 1..Len(tasks) :
        /\ tasks[i].saved = "error"
        /\ tasks[i].step = Returned
        /\ tasks[i].passed
        /\ tasks[i].sentTo = NotifierSet
        /\ \A r \in store : r.id # tasks[i].ev.id

\* A Send of delivery i returned an error.
SendFailed(i) == \E k \in 1..Len(tasks[i].sends) : tasks[i].sends[k].err

\* C18: when one notifier's Send returns an error for an event, every other
\* configured notifier is still invoked for that event, the event stays
\* persisted, and no send is retried: the Send calls of the delivery are one
\* call per configured notifier, in order, and the store still holds the row
\* written under the event's ID.
C18_SendErrorIsolated ==
    \A i \in 1..Len(tasks) :
        SendFailed(i) =>
            /\ Len(tasks[i].sends) = Len(Notifiers)
            /\ \A k \in 1..Len(Notifiers) : tasks[i].sends[k].to = Notifiers[k]
            /\ \E r \in store : r.id = tasks[i].ev.id

\* The first notifier's Send failed for a delivery, the second notifier's
\* Send was called and succeeded, and the event is in the store.
C18_Witness ==
    \E i \in 1..Len(tasks) :
        /\ Len(tasks[i].sends) = Len(Notifiers)
        /\ tasks[i].sends[1].err
        /\ ~tasks[i].sends[Len(Notifiers)].err
        /\ tasks[i].ev \in store

\* Delivery i is of a Critical firewall.changed event that names its chain.
CriticalChainEvent(i) ==
    /\ tasks[i].ev.type = "firewall.changed"
    /\ tasks[i].ev.sev = SeverityCritical
    /\ tasks[i].ev.chain # NoPayload

\* C28 as stated: a Critical firewall.changed event for a chain reaches the
\* notifiers unless a Critical event for the same chain was already
\* delivered within the cooldown; a Warning drift event for that chain never
\* causes it to be suppressed.  So a Critical delivery the gate turned down
\* has another Critical delivery for the chain that passed the gate no more
\* than one cooldown before it.
C28_CriticalNotSuppressedByDrift ==
    \A i \in 1..Len(tasks) :
        (CriticalChainEvent(i) /\ tasks[i].gateT >= 0 /\ ~tasks[i].passed) =>
            \E j \in 1..Len(tasks) :
                /\ j # i
                /\ CriticalChainEvent(j)
                /\ tasks[j].ev.chain = tasks[i].ev.chain
                /\ tasks[j].passed
                /\ tasks[j].gateT <= tasks[i].gateT
                /\ tasks[i].gateT - tasks[j].gateT <= Cooldown

\* Delivery i passed the gate and every notifier's Send returned an error.
AllSendsFailed(i) ==
    /\ tasks[i].passed
    /\ Len(tasks[i].sends) = Len(Notifiers)
    /\ \A k \in 1..Len(tasks[i].sends) : tasks[i].sends[k].err

\* C30 as stated: when every notifier fails to deliver an event that passed
\* the deduplicator gate, the next event with the same dedup key passes the
\* gate and is sent to the notifiers, even within the cooldown.  So a
\* delivery that reaches the gate when every earlier delivery of its key
\* has failed at every notifier passes it.
C30_UndeliveredAlertDoesNotSuppress ==
    [][\A j \in 1..Len(tasks) :
          ( /\ tasks[j].gateT < 0
            /\ tasks'[j].gateT >= 0
            /\ \E i \in 1..Len(tasks) : i # j /\ SameKey(i, j) /\ AllSendsFailed(i)
            /\ \A k \in 1..Len(tasks) :
                  (k # j /\ SameKey(k, j) /\ tasks[k].gateT >= 0)
                      => AllSendsFailed(k) )
          => tasks'[j].passed]_vars

\* C31 as stated: an event whose severity is below the configured
\* alerts.min_severity is never sent to a notifier.
C31_BelowMinSeverityNeverSent ==
    \A i \in 1..Len(tasks) :
        tasks[i].ev.sev < MinSeverity =>
            tasks[i].sends = <<>> /\ tasks[i].sentTo = {}

----------------------------------------------------------------------------
(* Claims about the system watcher (SpecSys) *)

----------------------------------------------------------------------------
(* Claims about the watchers (SpecWatch) *)

\* The chain of configuration entry i is readable in the reads of the last
\* firewall pass.
Readable(i) == ~fwOp.reads[i].err

\* The configured expectation of kind what ("policy" or "rule") on the chain
\* of configuration entry i does not hold in the reads of the last pass.
ExpectationFails(i, what) ==
    LET cfg == Chains[i]
        read == fwOp.reads[i]
    IN  /\ ~read.err
        /\ \/ /\ what = "policy"
              /\ cfg.ExpectPolicy # ""
              /\ ToUpper(fwOp.policies[i]) # ToUpper(cfg.ExpectPolicy)
           \/ /\ what = "rule"
              /\ cfg.ExpectRule # ""
              /\ \A r \in 1..Len(read.rules) :
                    \A t \in 1..Len(read.rules[r]) : read.rules[r][t] # cfg.ExpectRule

C8_TickPublishesFilteredDifference ==
    (portOp.kind = "check" /\ portOp.ok) =>
        LET appeared == portOp.snapshot \ portOp.before
            vanished == portOp.before \ portOp.snapshot
            kept == {a \in appeared \cup vanished : ~isIgnored(a)}
        IN  /\ {e.port.Address : e \in portOp.events} = kept
            /\ \A e \in portOp.events :
                  /\ e.type = "port.opened" <=> e.port.Address \in appeared
                  /\ e.type = "port.closed" <=> e.port.Address \in vanished

----------------------------------------------------------------------------
(* Claims about the Telegram command handler (SpecBot) *)

\* The decimal text of a chat identifier, as Telegram shows it.
FormatInt(n) == IF n < 0 THEN <<"-">> \o FormatNat(0 - n) ELSE FormatNat(n)

\* The words of a logged message.
PartsOf(entry) == Fields(TrimSpace(entry.text))

\* The arguments of a privileged command (the words after /reboot, after
\* /docker remove, after /docker prune); NoArgs marks any other message.
NoArgs == <<"-">>

PrivilegedArgs(entry) ==
    LET parts == PartsOf(entry)
    IN  IF parts = <<>> THEN NoArgs
        ELSE IF WordLower(parts[1]) = <<"/", "reboot">>
        THEN SubSeq(parts, 2, Len(parts))
        ELSE IF /\ WordLower(parts[1]) \in {<<"/", "docker">>, <<"/", "containers">>}
                /\ Len(parts) >= 2
                /\ WordLower(parts[2]) \in {<<"remove">>, <<"rm">>, <<"prune">>}
        THEN SubSeq(parts, 3, Len(parts))
        ELSE NoArgs

\* C9 as stated: a privileged command acts only when the last argument of
\* the message is CONFIRM in any letter case; in every other case it does
\* nothing and replies with a prompt that contains the word CONFIRM.
C9_PrivilegedActsOnlyOnLastArgConfirm ==
    \A i \in 1..Len(botLog) :
        LET entry == botLog[i]
            args == PrivilegedArgs(entry)
            confirmed == Len(args) > 0 /\ WordUpper(args[Len(args)]) = Confirm
        IN  (entry.routed /\ args # NoArgs) =>
                /\ entry.action # NoAction => confirmed
                /\ ~confirmed =>
                      /\ entry.action = NoAction
                      /\ \E k \in 1..Len(entry.replies) :
                            \E t \in 1..Len(entry.replies[k]) :
                                entry.replies[k][t] = "CONFIRM"

\* C10 as stated: a message whose chat identifier differs from the configured
\* one is never routed to a command handler, gets no reply and triggers no
\* action.
C10_OtherChatNeverRouted ==
    \A i \in 1..Len(botLog) :
        FormatInt(botLog[i].chat) # botChatID =>
            /\ ~botLog[i].routed
            /\ botLog[i].replies = <<>>
            /\ botLog[i].action = NoAction

\* C38 as stated: when the chat configuration's interactive flag is false,
\* the chat command handler is not run and no chat command is executed: the
\* watcher never polls and no update is routed to handleCommand.
C38_NonInteractiveRunsNoCommand ==
    ~botInteractive =>
        /\ botPhase # "polling"
        /\ \A i \in 1..Len(botLog) : ~botLog[i].routed

----------------------------------------------------------------------------
(* Claims about parseSsLine (SpecParse) *)

\* The host component of a local address: what precedes the last colon,
\* without the brackets around it if it has them.
HostComponent(addr) ==
    LET i == LastIndex(addr, ":")
        h == SubSeq(addr, 1, i - 1)
    IN  IF Len(h) >= 2 /\ h[1] = "[" /\ h[Len(h)] = "]"
        THEN SubSeq(h, 2, Len(h) - 1)
        ELSE h

\* The local addresses ss prints for a listening TCP socket: a host, a
\* colon and a port; an IPv6 host is printed bare (older ss) or in brackets.
SsPrints(addr) ==
    /\ Len(addr) >= 3
    /\ addr[Len(addr)] = "80"
    /\ addr[Len(addr) - 1] = ":"
    /\ SubSeq(addr, 1, Len(addr) - 2) \in
          { <<"0.0.0.0">>, <<"127.0.0.1">>, <<"*">>,
            <<":", ":">>, <<"[", ":", ":", "]">> }

\* C21 as stated: a listening socket is marked IsExposed exactly when the
\* host component of its local address is a wildcard (0.0.0.0, :: or *),
\* the IPv6 wildcard written as :::port included.
C21_ExposedIffWildcardHost ==
    (ssOut.kind = "parsed" /\ SsPrints(ssIn)) =>
        (ssOut.port.IsExposed <=> HostComponent(ssIn) \in WildcardHosts)

----------------------------------------------------------------------------
(* Claims about the firewall watcher (SpecFw) *)

\* Event k of the last firewall pass reports (table, chain) pair i.
EventOfPair(k, i) ==
    /\ fwOp.events[k].chain = Chains[i].Chain
    /\ fwOp.events[k].table = Chains[i].Table

DriftEvents(events) == {k \in 1..Len(events) : events[k].what = "drift"}

\* C15 as stated: for every configured (table, chain) pair, a check that
\* sees the rules the previous pass saw publishes no drift event, the
\* previous pass having left the digest of those rules as the baseline.
C15_SameRulesPublishNoDrift ==
    [][(/\ fwOp.kind \in {"start", "check"}
        /\ fwOp'.kind = "check"
        /\ fwOp'.reads = fwOp.reads)
          => DriftEvents(fwOp'.events) = {}]_vars

\* C32 as stated: for every configured chain, once a check has read its
\* rules successfully, a later successful check that sees a different rule
\* list publishes a firewall.changed drift event, even if the chain could
\* not be read when the watcher started.  So of two consecutive checks that
\* both read a chain and see different rule lists, the second publishes a
\* drift event for the chain.
C32_DriftAfterSuccessfulRead ==
    [][\A i \in ChainIdx :
          ( /\ fwOp.kind = "check"
            /\ fwOp'.kind = "check"
            /\ ~fwOp.reads[i].err
            /\ ~fwOp'.reads[i].err
            /\ fwOp'.reads[i].rules # fwOp.reads[i].rules )
          => \E k \in DriftEvents(fwOp'.events) :
                 fwOp'.events[k].chain = Chains[i].Chain]_vars

----------------------------------------------------------------------------
(* Claims about shutdown (SpecShutdown) *)

\* The watchers whose Stop has been called.
StoppedWatchers == {runStopped[i] : i \in 1..Len(runStopped)}

\* C16: on a shutdown signal the daemon cancels the shared context, then
\* waits until every watcher task and both periodic tasks have returned,
\* then stops each watcher, and only then closes the store: the context is
\* cancelled only once the signal was received, no watcher is stopped before
\* the context is cancelled and every task has returned, and the store is
\* closed only after Stop was called on every watcher, in order.
C16_ShutdownOrder ==
    /\ ctxDone => runPc > 1
    /\ runStopped # <<>> => ctxDone /\ AllReturned
    /\ ~storeOpen => /\ ctxDone
                     /\ AllReturned
                     /\ runStopped = RunWatchers

\* Run has returned: the context is cancelled, every task has returned,
\* every watcher is stopped and the store is closed.
C16_Witness ==
    /\ runPc > Len(RunStmts)
    /\ ctxDone
    /\ AllReturned
    /\ runStopped = RunWatchers
    /\ ~storeOpen

C29_NoDeliveryAfterClose ==
    [][~storeOpen =>
          /\ store' = store
          /\ \A i \in 1..Len(tasks) : tasks'[i].sends = tasks[i].sends]_vars

----------------------------------------------------------------------------
(* Claims about the event bus (SpecBus) *)

\* The goroutines Publish call k started for handler h.
StartedFor(k, h) == {i \in 1..Len(busTasks) : busTasks[i].pub = k /\ busTasks[i].handler = h}

\* Some Publish is possible in the current state.
CanPublish == ENABLED (\E e \in FirewallEvents : BusPublish(e))

C12_PanicIsIsolated ==
    (\E i \in 1..Len(busTasks) : busTasks[i].state = "panicked") =>
        /\ procUp
        /\ \A j \in 1..Len(busTasks) : busTasks[j].state # "killed"

----------------------------------------------------------------------------
(* Claims about the polling watchers (SpecPoll) *)

\* C13: when the probe of a polling watcher fails on a tick (ss, docker ps
\* or ip neigh cannot be run or returns an error), that tick publishes no
\* event and leaves the watcher's baseline exactly as it was; this holds for
\* the port, the container and the network-neighbour watcher.
C13_FailedProbeChangesNothing ==
    /\ (portOp.kind = "check" /\ ~portOp.ok) =>
          /\ portOp.events = {}
          /\ portBaseline = PortMap(portOp.before)
    /\ (dockerOp.kind = "check" /\ ~dockerOp.ok) =>
          /\ dockerOp.events = {}
          /\ dockerBaseline = dockerOp.before
    /\ (netOp.kind = "check" /\ ~netOp.ok) =>
          /\ netOp.events = {}
          /\ netBaseline = netOp.before

\* docker ps failed on a tick of a watcher that holds a baseline with a
\* running container in it.
C13_Witness ==
    /\ dockerOp.kind = "check"
    /\ ~dockerOp.ok
    /\ \E id \in DOMAIN dockerBaseline : dockerBaseline[id].State = "running"

\* C20: every port.opened event has Severity Warning exactly when its port
\* payload has IsExposed true and Severity Info otherwise; every port.closed
\* event has Severity Info.
C20_PortSeverityFollowsExposure ==
    portOp.kind \in {"start", "check"} =>
        \A e \in portOp.events :
            /\ e.type = "port.opened" =>
                  /\ e.sev = SeverityWarning <=> e.port.IsExposed
                  /\ ~e.port.IsExposed => e.sev = SeverityInfo
            /\ e.type = "port.closed" => e.sev = SeverityInfo

\* One tick published port.opened for a wildcard address and for a LAN
\* address, and port.closed for an address that was exposed.
C20_Witness ==
    /\ portOp.kind = "check"
    /\ \E e \in portOp.events : e.type = "port.opened" /\ e.port.IsExposed
    /\ \E e \in portOp.events : e.type = "port.opened" /\ ~e.port.IsExposed
    /\ \E e \in portOp.events : e.type = "port.closed" /\ e.port.IsExposed

\* The container_unhealthy events of the last container check.
UnhealthyEvents == {e \in dockerOp.events : e.type = "docker.container_unhealthy"}

\* Container id is reported unhealthy in snapshot or baseline m.
UnhealthyIn(m, id) ==
    id \in DOMAIN m /\ \E k \in 1..Len(m[id].Status) : m[id].Status[k] = "unhealthy"

ExitedWith(id, code) ==
    /\ dockerOp.ok
    /\ id \in DOMAIN dockerOp.before
    /\ dockerOp.before[id].State = "running"
    /\ id \in DOMAIN dockerOp.snapshot
    /\ dockerOp.snapshot[id] = [State |-> "exited", Status |-> <<"Exited", "(", code, ")">>]

\* The events of the last container check about container id.
DockerEventsOf(id) == {e \in dockerOp.events : e.id = id}

\* C23: for a container that was running in the baseline and is exited in
\* the current snapshot, the watcher publishes container_died with Severity
\* Warning when the exit code in the status is not zero, container_stopped
\* with Severity Info when it is zero and alert_on_stop is set, and nothing
\* when it is zero and alert_on_stop is unset.
C23_ExitReportedByCode ==
    dockerOp.kind = "check" =>
        \A id \in ContainerIDs :
            /\ ExitedWith(id, "1") =>
                  \E e \in DockerEventsOf(id) :
                      /\ DockerEventsOf(id) = {e}
                      /\ e.type = "docker.container_died"
                      /\ e.sev = SeverityWarning
            /\ (ExitedWith(id, "0") /\ alertOnStop) =>
                  \E e \in DockerEventsOf(id) :
                      /\ DockerEventsOf(id) = {e}
                      /\ e.type = "docker.container_stopped"
                      /\ e.sev = SeverityInfo
            /\ (ExitedWith(id, "0") /\ ~alertOnStop) => DockerEventsOf(id) = {}

\* One tick saw a running container exit with code 1 and another exit with
\* code 0.
C23_Witness ==
    /\ dockerOp.kind = "check"
    /\ \E id \in ContainerIDs : ExitedWith(id, "1")
    /\ \E id \in ContainerIDs : ExitedWith(id, "0")

\* The MACs the last neighbour check published events of the given type for.
NetEventMACs(type) == {e.mac : e \in {x \in netOp.events : x.type = type}}

----------------------------------------------------------------------------
(* Claims about the security-tools watcher (SpecSec) *)

\* C25: when the log's size is smaller than the stored offset the tick
\* goes back to offset 0 and evaluates every line of the file from the
\* top; otherwise it evaluates only the content after the stored offset.
C25_ShrunkLogReadFromTop ==
    (secOp.kind = "scan" /\ secOp.ok) =>
        LET size == Len(secOp.content)
        IN  IF size < secOp.before
            THEN secOp.evaluated = ScanLines(secOp.content)
            ELSE secOp.evaluated =
                   ScanLines(SubSeq(secOp.content, secOp.before + 1, size))

\* A tick found the log shorter than the stored offset, with a FOUND line
\* in it, and published it.
C25_Witness ==
    /\ secOp.kind = "scan" /\ secOp.ok
    /\ Len(secOp.content) < secOp.before
    /\ Len(secOp.events) = 1
    /\ Len(secOp.evaluated) = 2

\* What the last scan read: the content from the offset it started at.
ScanRead ==
    ReadFrom(secOp.content, rotationReset(secOp.before, Len(secOp.content)))

\* C35 as stated: after each scan of a tailed log the stored offset equals
\* the byte position immediately after the last complete
\* (newline-terminated) line that was read, never a position inside or
\* after an incomplete final line.
C35_OffsetAfterLastCompleteLine ==
    (secOp.kind = "scan" /\ secOp.ok) =>
        secOffset = rotationReset(secOp.before, Len(secOp.content))
                    + LastIndex(ScanRead, "\n")

----------------------------------------------------------------------------
(* Claims about the file-integrity watcher (SpecFim) *)

\* A close-after-write of the watched file was dispatched.
CloseWriteDispatched ==
    fimOp.kind = "dispatch" /\ fimOp.mask = "IN_CLOSE_WRITE" /\ fimOp.known

\* C26: a close-after-write on a watched file publishes a modified event
\* only when the new content digest differs from the stored baseline
\* digest, and the stored digest is then the new one; a touch or a rewrite
\* of identical content publishes nothing.
C26_ModifiedOnlyOnNewDigest ==
    CloseWriteDispatched =>
        /\ fimOp.events # {} =>
              /\ fimOp.newHash # fimOp.oldHash
              /\ MapGet(fimHashes, FimPath) = fimOp.newHash
              /\ \A e \in fimOp.events : e.change = "modified"
        /\ fimOp.newHash = fimOp.oldHash => fimOp.events = {}

\* The file was rewritten with the content its baseline digest is of, and
\* nothing was published.
C26_Witness ==
    /\ CloseWriteDispatched
    /\ fimOp.oldHash # <<>>
    /\ fimOp.newHash = fimOp.oldHash
    /\ fimOp.events = {}

----------------------------------------------------------------------------
(* Claims about Store.Prune (SpecPrune) *)

\* The rows of the table handed to the last Prune that were stamped before
\* now minus days.
OlderThanCutoff ==
    {r \in pruneOp.before : r.ts < pruneOp.at - pruneOp.days * DayLen}

\* C27: prune(d) deletes exactly the stored events whose timestamp is
\* earlier than now minus d days, returns how many it deleted, and leaves
\* every other stored event unchanged.
C27_PruneDeletesExactlyOlder ==
    (pruneOp.kind = "prune" /\ ~pruneOp.err) =>
        /\ store = pruneOp.before \ OlderThanCutoff
        /\ pruneOp.n = Cardinality(OlderThanCutoff)

\* A Prune deleted two rows and kept one stamped exactly at the cutoff.
C27_Witness ==
    /\ pruneOp.kind = "prune" /\ ~pruneOp.err
    /\ pruneOp.n = 2
    /\ \E r \in store : r.ts = pruneOp.at - pruneOp.days * DayLen

----------------------------------------------------------------------------
(* Claims about the polling watchers after a failed start (SpecPoll) *)

\* C33 as stated: if the container runtime or the neighbour table cannot be
\* read when its watcher starts, the first later tick that succeeds
\* publishes no container_start or new_device event for containers or
\* devices that were already present at start-up.  So a successful tick that
\* follows a failed start publishes no container_start for a container that
\* was running then and no new_device for a device of the table then.
C33_NoStartEventsAfterFailedStart ==
    [][/\ ( /\ dockerOp.kind = "start" /\ ~dockerOp.ok
            /\ dockerOp'.kind = "check" /\ dockerOp'.ok )
          => \A e \in dockerOp'.events :
                 e.type = "docker.container_start" =>
                     ~( /\ e.id \in DOMAIN dockerOp.present
                        /\ dockerOp.present[e.id].State = "running" )
       /\ ( /\ netOp.kind = "start" /\ ~netOp.ok
            /\ netOp'.kind = "check" /\ netOp'.ok )
          => \A e \in netOp'.events :
                 e.type = "network.new_device" =>
                     e.mac \notin DOMAIN netOp.present]_vars

----------------------------------------------------------------------------
(* Claims about the daily summary (SpecSummary) *)

\* The occurrence of a minute that time t lies in.
MinuteOccurrence(t) == t \div SecondsPerMinute

\* C36: the daily summary is sent at most once during any single
\* occurrence of the configured HH:MM minute.
C36_SummaryOncePerMinute ==
    \A i, j \in 1..Len(sumSends) :
        i # j => MinuteOccurrence(sumSends[i]) # MinuteOccurrence(sumSends[j])

\* The summary was sent in two occurrences of the configured minute.
C36_Witness ==
    /\ Len(sumSends) = 2
    /\ MinuteOfDay(sumSends[1]) = sumMinute
    /\ MinuteOfDay(sumSends[2]) = sumMinute

====
